---- MODULE Spec2Model ----
(***************************************************************************)
(* A model of the stheader package: the Structured Headers parser          *)
(* (parser.go), the serializer (serializer.go) and the value types they    *)
(* share (types.go).                                                       *)
(*                                                                         *)
(* Input and output text is a sequence of byte codes (0..255).  The Go     *)
(* cursor p.pos is 0-based: the byte at p.pos is input[pos + 1].           *)
(*                                                                         *)
(* An int64 or float64 payload is kept as its exact decimal expansion      *)
(* [neg, ip, fp]: sign, integer digits without leading zeros and fraction  *)
(* digits without trailing zeros.  For the float64 payloads the model      *)
(* handles (at most 15 significant digits) this is what strconv.ParseFloat *)
(* followed by strconv.FormatFloat(v, 'f', -1, 64) yields.                 *)
(***************************************************************************)
EXTENDS Integers, Sequences, FiniteSets, TLC

VARIABLES
    input,      \* Parser.input
    pos,        \* Parser.pos
    pc,         \* position of the caller / of the parser in its code
    entry,      \* the public entry point in progress: Dictionary, List, Item
    output,     \* parseDictionary's and parseList's local `output`
    key,        \* parseDictionary's local `key`
    items,      \* parseInnerList's local `items`
    bareItem,   \* parseItem's local `bi`
    params,     \* parseParameters' local `params`
    itemCtx,    \* the caller of the parseItem in progress
    paramsCtx,  \* the caller of the parseParameters in progress
    member,     \* the Member returned by parseMember
    value,      \* the value returned to the caller (nil on error)
    err,        \* the error returned to the caller
    out,        \* Serialize's result
    round,      \* 1: first parse, 2: parse of the text serialized from its
                \* result, 3: parse of the text serialized from a built value
    firstOut,   \* the text serialized in round 1
    cont,       \* a Parameters or Dictionary the caller edits: its items slice
    rng,        \* the Range call on cont: its loop and what it has visited
    lastOp,     \* the last Store or Delete on cont, and how many there were
    stamp       \* for each key in cont, the number of the Store that added it

vars == <<input, pos, pc, entry, output, key, items, bareItem, params,
          itemCtx, paramsCtx, member, value, err, out, round, firstOut,
          cont, rng, lastOp, stamp>>

\* the variables of the parser and of its caller, pc apart
parserVars == <<input, pos, entry, output, key, items, bareItem, params,
                itemCtx, paramsCtx, member, value, err, out, round, firstOut>>

\* the variables of the container the caller edits
mapVars == <<cont, rng, lastOp, stamp>>

-----------------------------------------------------------------------------
(* Bounds of the model *)

\* generated inputs: every byte string over GenAlphabet of at most this length
MaxLen == 3

\* generated byte sequences: every base64 content over B64GenAlphabet of at
\* most this length
MaxB64Len == 4

\* built Strings: every payload over StrGenAlphabet of at most this length
MaxStrLen == 2

\* the Store and Delete calls made on one container
MaxOps == 4

\* the largest capacity append gives the items slice
MaxCap == 4

-----------------------------------------------------------------------------
(* Byte codes of the character literals of the source *)

HTAB == 9
SP == 32
DQUOTE == 34
PERCENT == 37
LPAREN == 40
RPAREN == 41
STAR == 42
PLUS == 43
COMMA == 44
MINUS == 45
DOT == 46
SLASH == 47
DIGIT0 == 48
DIGIT1 == 49
DIGIT9 == 57
COLON == 58
SEMICOLON == 59
EQUALS == 61
QUESTION == 63
UPPER_A == 65
UPPER_Z == 90
BACKSLASH == 92
UNDERSCORE == 95
LOWER_A == 97
LOWER_Z == 122
TILDE == 126

\* keyRegex: {0,254} characters after the first
KeyMaxTail == 254

IsDigit(b) == DIGIT0 <= b /\ b <= DIGIT9
IsLower(b) == LOWER_A <= b /\ b <= LOWER_Z
IsUpper(b) == UPPER_A <= b /\ b <= UPPER_Z
IsAlpha(b) == IsLower(b) \/ IsUpper(b)

\* [a-z0-9_\-\*]
IsKeyRest(b) == IsLower(b) \/ IsDigit(b) \/ b \in {UNDERSCORE, MINUS, STAR}

\* [a-zA-Z0-9_\-\.\:\%\*\/]
IsTokenRest(b) ==
    IsAlpha(b) \/ IsDigit(b)
    \/ b \in {UNDERSCORE, MINUS, DOT, COLON, PERCENT, STAR, SLASH}

\* [A-Za-z0-9\\+\\/=] (the doubled backslash of the raw string literal puts
\* the backslash itself into the class)
IsByteSeqChar(b) ==
    IsAlpha(b) \/ IsDigit(b) \/ b \in {BACKSLASH, PLUS, SLASH, EQUALS}

\* the character classes as sets of bytes, for the scanners below
AllBytes == 0..255
DigitClass == {b \in AllBytes : IsDigit(b)}
KeyRestClass == {b \in AllBytes : IsKeyRest(b)}
TokenRestClass == {b \in AllBytes : IsTokenRest(b)}
ByteSeqClass == {b \in AllBytes : IsByteSeqChar(b)}

-----------------------------------------------------------------------------
(* Helpers on sequences *)

MinOf(S) == CHOOSE x \in S : \A y \in S : x <= y

\* the number of consecutive bytes of in, from 0-based offset p on, that are
\* in the class: a greedy `[class]*`
RunLen(in, p, class) ==
    LET stop == {i \in (p + 1)..Len(in) : in[i] \notin class}
    IN  IF stop = {} THEN (IF p < Len(in) THEN Len(in) - p ELSE 0)
        ELSE MinOf(stop) - (p + 1)

Min2(a, b) == IF a < b THEN a ELSE b

\* in[from..to) with 0-based offsets, as Go's in[from:to]
Slice(in, from, to) == SubSeq(in, from + 1, to)

-----------------------------------------------------------------------------
(* Errors *)

nilErr == [nil |-> TRUE, msg |-> "", pos |-> 0]

ParseError(m, p) == [nil |-> FALSE, msg |-> m, pos |-> p]

SerializeError(m) == [nil |-> FALSE, msg |-> m, pos |-> 0]

-----------------------------------------------------------------------------
(* types.go: the values *)

ItemTypeString == "string"
ItemTypeByteSeq == "byteSeq"
ItemTypeBool == "bool"
ItemTypeInt == "int"
ItemTypeFloat == "float"
ItemTypeToken == "token"

MemberTypeItem == "item"
MemberTypeInnerList == "innerList"

\* a number payload: sign, integer digits, fraction digits
Num(neg, ip, fp) == [neg |-> neg, ip |-> ip, fp |-> fp]

NumZero == Num(FALSE, <<0>>, <<>>)

\* the nil BareItem (a parameter without a value)
NilBareItem == [type |-> "nil", s |-> <<>>, b |-> FALSE, n |-> NumZero]

\* NewBareItem, by payload type
BareString(s) == [type |-> ItemTypeString, s |-> s, b |-> FALSE, n |-> NumZero]
BareByteSeq(s) == [type |-> ItemTypeByteSeq, s |-> s, b |-> FALSE, n |-> NumZero]
BareToken(s) == [type |-> ItemTypeToken, s |-> s, b |-> FALSE, n |-> NumZero]
BareBool(b) == [type |-> ItemTypeBool, s |-> <<>>, b |-> b, n |-> NumZero]
BareInt(n) == [type |-> ItemTypeInt, s |-> <<>>, b |-> FALSE, n |-> n]
BareFloat(n) == [type |-> ItemTypeFloat, s |-> <<>>, b |-> FALSE, n |-> n]

NewItem(bi, ps) == [bareItem |-> bi, params |-> ps]

NewInnerList(its, ps) == [items |-> its, params |-> ps]

NilItem == NewItem(NilBareItem, <<>>)

NilInnerList == NewInnerList(<<>>, <<>>)

\* NewMember, by payload type: an Item or an InnerList
ItemMember(it) == [type |-> MemberTypeItem, item |-> it, innerList |-> NilInnerList]

InnerListMember(l) == [type |-> MemberTypeInnerList, item |-> NilItem, innerList |-> l]

\* parameters.index / dictionary.index: 0-based index of name, -1 if absent
index(its, name) ==
    LET hits == {i \in 1..Len(its) : its[i].name = name}
    IN  IF hits = {} THEN -1 ELSE MinOf(hits) - 1

\* parameters.Store / dictionary.Store
Store(its, name, v) ==
    LET i == index(its, name)
    IN  IF i = -1 THEN Append(its, [name |-> name, value |-> v])
        ELSE [its EXCEPT ![i + 1].value = v]

\* Load that takes a nil value for an absent key
Load_NilIsAbsent(its, name) ==
    LET i == index(its, name)
    IN  IF i = -1 THEN [value |-> NilBareItem, ok |-> FALSE]
        ELSE [value |-> its[i + 1].value, ok |-> its[i + 1].value # NilBareItem]

\* parameters.Load: the value and the found flag
Load(its, name) ==
    LET i == index(its, name)
    IN  IF i = -1 THEN [value |-> NilBareItem, ok |-> FALSE]
        ELSE [value |-> its[i + 1].value, ok |-> TRUE]

\* the values a caller holds: a Dictionary, a List, an Item, or nil
Nil == [kind |-> "nil", dict |-> <<>>, list |-> <<>>, item |-> NilItem]
DictionaryValue(d) == [kind |-> "Dictionary", dict |-> d, list |-> <<>>, item |-> NilItem]
ListValue(l) == [kind |-> "List", dict |-> <<>>, list |-> l, item |-> NilItem]
ItemValue(it) == [kind |-> "Item", dict |-> <<>>, list |-> <<>>, item |-> it]

-----------------------------------------------------------------------------
(* parser.go: the cursor primitives *)

\* what a parsing routine hands back: its value, its error and p.pos after it
R(v, e, p) == [val |-> v, err |-> e, pos |-> p]

\* eol that is true only past the end
eol_PastEnd(in, p) == p > Len(in)

\* eol
eol(in, p) == p >= Len(in)

IsOWS(b) == b = SP \/ b = HTAB
OWSClass == {b \in AllBytes : IsOWS(b)}

\* skipOWS: p.pos after it
skipOWS(in, p) == p + RunLen(in, p, OWSClass)

\* peekByte that hands back a zero byte, and no error, at end of input
peekByte_NoEnd(in, p) ==
    IF Len(in) - p <= 0 THEN R(0, nilErr, p) ELSE R(in[p + 1], nilErr, p)

\* peekByte: the byte at p.pos, or an error at end of input
peekByte(in, p) ==
    IF Len(in) - p <= 0
    THEN R(0, ParseError("Unexpected end of string in peekByte", p), p)
    ELSE R(in[p + 1], nilErr, p)

\* getByte: peekByte, then advance
getByte(in, p) ==
    LET Peeked(r) ==
            IF ~r.err.nil THEN R(0, r.err, p) ELSE R(r.val, nilErr, p + 1)
    IN  Peeked(peekByte(in, p))

\* matchByte without the comparison: any byte is taken for the expected one
matchByte_NoCheck(in, p, match) ==
    LET Got(r) == IF ~r.err.nil THEN r ELSE R(0, nilErr, r.pos)
    IN  Got(getByte(in, p))

\* matchByte
matchByte(in, p, match) ==
    LET Got(r) ==
            IF ~r.err.nil THEN r
            ELSE IF r.val # match
                 THEN R(0, ParseError("Expected byte", r.pos - 1), r.pos)
                 ELSE R(0, nilErr, r.pos)
    IN  Got(getByte(in, p))

-----------------------------------------------------------------------------
(* parser.go: the scanners *)

\* keyRegex.Find: the length of the match at p, 0 when there is none
KeyMatchLen(in, p) ==
    IF p < Len(in) /\ IsLower(in[p + 1])
    THEN 1 + Min2(RunLen(in, p + 1, KeyRestClass), KeyMaxTail)
    ELSE 0

\* parseKey
parseKey(in, p) ==
    LET Matched(n) ==
            IF n = 0
            THEN R(<<>>, ParseError("Expected key identifier", p), p)
            ELSE R(Slice(in, p, p + n), nilErr, p + n)
    IN  Matched(KeyMatchLen(in, p))

\* tokenRegex.Find: the length of the match at p, 0 when there is none
TokenMatchLen(in, p) ==
    IF p < Len(in) /\ IsAlpha(in[p + 1])
    THEN 1 + RunLen(in, p + 1, TokenRestClass)
    ELSE 0

\* parseToken
parseToken(in, p) ==
    LET Matched(n) ==
            IF n = 0
            THEN R(<<>>, ParseError("Expected token identifier", p), p)
            ELSE R(Slice(in, p, p + n), nilErr, p + n)
    IN  Matched(TokenMatchLen(in, p))

\* parseBoolean
parseBoolean(in, p) ==
    LET Got(g) ==
            IF ~g.err.nil THEN R(FALSE, g.err, g.pos)
            ELSE IF g.val = DIGIT0 THEN R(FALSE, nilErr, g.pos)
            ELSE IF g.val = DIGIT1 THEN R(TRUE, nilErr, g.pos)
            ELSE R(FALSE,
                   ParseError("A ? must be followed by 0 or 1", g.pos - 1),
                   g.pos)
        Matched(m) ==
            IF ~m.err.nil THEN R(FALSE, m.err, m.pos)
            ELSE Got(getByte(in, m.pos))
    IN  Matched(matchByte(in, p, QUESTION))

\* the string loop of parseString, from p on, with `out` collected so far
RECURSIVE StringLoop(_, _, _)
StringLoop(in, p, acc) ==
    LET Escaped(g2) ==
            IF ~g2.err.nil THEN R(<<>>, g2.err, g2.pos)
            ELSE IF g2.val # DQUOTE /\ g2.val # BACKSLASH
                 THEN R(<<>>,
                        ParseError("Expected a quote or backslash", g2.pos - 1),
                        g2.pos)
                 ELSE StringLoop(in, g2.pos, Append(acc, g2.val))
        Got(g) ==
            IF ~g.err.nil THEN R(<<>>, g.err, g.pos)
            ELSE IF g.val = BACKSLASH THEN Escaped(getByte(in, g.pos))
            ELSE IF g.val = DQUOTE THEN R(acc, nilErr, g.pos)
            ELSE IF g.val < SP \/ g.val > TILDE
                 THEN R(<<>>,
                        ParseError("Character outside of ASCII range", g.pos - 1),
                        g.pos)
                 ELSE StringLoop(in, g.pos, Append(acc, g.val))
    IN  Got(getByte(in, p))

\* parseString without the advance over the opening quote
parseString_NoAdvance(in, p) == StringLoop(in, p, <<>>)

\* parseString: p.advance() over the opening quote, then the loop
parseString(in, p) == StringLoop(in, p + 1, <<>>)

-----------------------------------------------------------------------------
(* strconv: the conversions between text and numbers *)

Digits(bytes) == [i \in 1..Len(bytes) |-> bytes[i] - DIGIT0]

DigitBytes(ds) == [i \in 1..Len(ds) |-> ds[i] + DIGIT0]

MaxOf(S) == CHOOSE x \in S : \A y \in S : x >= y

StripLeadingZeros(ds) ==
    LET nz == {i \in 1..Len(ds) : ds[i] # 0}
    IN  IF nz = {} THEN <<0>> ELSE SubSeq(ds, MinOf(nz), Len(ds))

StripTrailingZeros(ds) ==
    LET nz == {i \in 1..Len(ds) : ds[i] # 0}
    IN  IF nz = {} THEN <<>> ELSE SubSeq(ds, 1, MaxOf(nz))

\* strconv.ParseInt(m, 10, 64) of [0-9-][0-9]* text of at most 16 bytes: a
\* lone "-" is a syntax error; leading zeros and the sign of zero are dropped
ParseInt(m) ==
    LET neg == m[1] = MINUS
        ds  == Digits(IF neg THEN Tail(m) ELSE m)
        ip  == StripLeadingZeros(ds)
    IN  IF ds = <<>> THEN [ok |-> FALSE, n |-> NumZero]
        ELSE [ok |-> TRUE, n |-> Num(neg /\ ip # <<0>>, ip, <<>>)]

\* strconv.ParseFloat(m, 64) of [0-9-][0-9]*\.[0-9]{1,6} text: an empty
\* integer part reads as 0, and a negative zero keeps its sign
ParseFloat(m) ==
    LET neg == m[1] = MINUS
        body == IF neg THEN Tail(m) ELSE m
        dot == MinOf({i \in 1..Len(body) : body[i] = DOT})
        ipd == Digits(SubSeq(body, 1, dot - 1))
        fpd == Digits(SubSeq(body, dot + 1, Len(body)))
    IN  IF ipd = <<>> /\ fpd = <<>> THEN [ok |-> FALSE, n |-> NumZero]
        ELSE [ok |-> TRUE,
              n |-> Num(neg, StripLeadingZeros(ipd), StripTrailingZeros(fpd))]

\* strconv.AppendInt(b, v, 10): the text appended
FormatInt(n) == (IF n.neg THEN <<MINUS>> ELSE <<>>) \o DigitBytes(n.ip)

\* strings.Split(strconv.FormatFloat(v, 'f', -1, 64), "."): parts[0] carries
\* the sign; there is a parts[1] only when the value has fraction digits
FormatFloatParts(n) ==
    LET p0 == (IF n.neg THEN <<MINUS>> ELSE <<>>) \o DigitBytes(n.ip)
    IN  IF n.fp = <<>> THEN <<p0>> ELSE <<p0, DigitBytes(n.fp)>>

\* v > 0 of a float64
FloatPositive(n) == ~n.neg /\ (n.ip # <<0>> \/ n.fp # <<>>)

\* comparison of digit strings without leading zeros, as numbers
RECURSIVE LexLess(_, _)
LexLess(a, b) ==
    IF a = <<>> THEN FALSE
    ELSE IF Head(a) # Head(b) THEN Head(a) < Head(b)
    ELSE LexLess(Tail(a), Tail(b))

MagLess(a, b) == Len(a) < Len(b) \/ (Len(a) = Len(b) /\ LexLess(a, b))

\* x < y of two int64
IntLess(x, y) ==
    IF x.neg /\ ~y.neg THEN TRUE
    ELSE IF ~x.neg /\ y.neg THEN FALSE
    ELSE IF x.neg THEN MagLess(y.ip, x.ip)
    ELSE MagLess(x.ip, y.ip)

-----------------------------------------------------------------------------
(* parser.go: numbers *)

\* numberPartRegex.Find: the length of the match at p, 0 when there is none
NumberMatchLen(in, p) ==
    IF p < Len(in) /\ (IsDigit(in[p + 1]) \/ in[p + 1] = MINUS)
    THEN LET n == RunLen(in, p + 1, DigitClass)
             q == p + 1 + n
             f == IF q < Len(in) /\ in[q + 1] = DOT
                  THEN Min2(RunLen(in, q + 1, DigitClass), 6)
                  ELSE 0
         IN  1 + n + (IF f >= 1 THEN 1 + f ELSE 0)
    ELSE 0

\* the digit-count test with the sign counted as a digit
TooManyDigits_SignCounted(m) == Len(m) > 15

\* the digit-count test with the limit of 16 bytes for either sign
TooManyDigits_SixteenForAll(m) == Len(m) > 16

\* the digit-count test of parseNumber on the matched text of an Integer
TooManyDigits(m) == Len(m) > 16 \/ (m[1] # MINUS /\ Len(m) > 15)

\* parseNumber: an Integer or a Float BareItem
parseNumber(in, p) ==
    LET Decimal(v, q) ==
            IF ~v.ok
            THEN R(NilBareItem, ParseError("Expected float number", q), q)
            ELSE R(BareFloat(v.n), nilErr, q)
        Integer(v, q) ==
            IF ~v.ok
            THEN R(NilBareItem, ParseError("Expected integer number", q), q)
            ELSE R(BareInt(v.n), nilErr, q)
        Matched(m, q) ==
            IF m = <<>> THEN R(NilBareItem, ParseError("Expected number", p), p)
            ELSE IF \E i \in 1..Len(m) : m[i] = DOT THEN Decimal(ParseFloat(m), q)
            ELSE IF TooManyDigits(m)
            THEN R(NilBareItem,
                   ParseError("Integers must not have more than 15 digits", q), q)
            ELSE Integer(ParseInt(m), q)
        Found(len) == Matched(Slice(in, p, p + len), p + len)
    IN  Found(NumberMatchLen(in, p))

-----------------------------------------------------------------------------
(* encoding/base64, as parseByteSeq and appendBareItemByteSeq use it *)

\* the decode map of the standard alphabet; 255 for a byte outside it
B64Index(b) ==
    IF IsUpper(b) THEN b - UPPER_A
    ELSE IF IsLower(b) THEN b - LOWER_A + 26
    ELSE IF IsDigit(b) THEN b - DIGIT0 + 52
    ELSE IF b = PLUS THEN 62
    ELSE IF b = SLASH THEN 63
    ELSE 255

B64Char(i) ==
    IF i < 26 THEN UPPER_A + i
    ELSE IF i < 52 THEN LOWER_A + (i - 26)
    ELSE IF i < 62 THEN DIGIT0 + (i - 52)
    ELSE IF i = 62 THEN PLUS
    ELSE SLASH

B64Fail == [ok |-> FALSE, si |-> 0, dlen |-> 0, dbuf |-> <<>>]

\* decodeQuantum's loop: reads up to four alphabet bytes from src[si:] into
\* dbuf; padded is TRUE for StdEncoding and FALSE for RawStdEncoding.  (The
\* bytes CR and LF it skips are not in the class byteSeqRegex lets through.)
RECURSIVE B64Gather(_, _, _, _, _)
B64Gather(src, si, j, dbuf, padded) ==
    IF j = 4 THEN [ok |-> TRUE, si |-> si, dlen |-> 4, dbuf |-> dbuf]
    ELSE IF si = Len(src)
    THEN IF j = 0 THEN [ok |-> TRUE, si |-> si, dlen |-> 1, dbuf |-> dbuf]
         ELSE IF j = 1 \/ padded THEN B64Fail
         ELSE [ok |-> TRUE, si |-> si, dlen |-> j, dbuf |-> dbuf]
    ELSE LET in == src[si + 1]
             o == B64Index(in)
         IN  IF o # 255 THEN B64Gather(src, si + 1, j + 1, Append(dbuf, o), padded)
             ELSE IF ~padded \/ in # EQUALS THEN B64Fail
             ELSE IF j <= 1 THEN B64Fail
             ELSE IF j = 2 /\ (si + 1 = Len(src) \/ src[si + 2] # EQUALS)
                  THEN B64Fail
             ELSE LET si2 == IF j = 2 THEN si + 2 ELSE si + 1
                  IN  IF si2 < Len(src) THEN B64Fail
                      ELSE [ok |-> TRUE, si |-> si2, dlen |-> j, dbuf |-> dbuf]

\* the dlen - 1 bytes that dbuf's 6-bit groups make
B64Bytes(dbuf, dlen) ==
    LET d == [i \in 1..4 |-> IF i <= Len(dbuf) THEN dbuf[i] ELSE 0]
        val == d[1] * 262144 + d[2] * 4096 + d[3] * 64 + d[4]
        all == <<val \div 65536, (val \div 256) % 256, val % 256>>
    IN  SubSeq(all, 1, dlen - 1)

\* Encoding.Decode of src[si:]
RECURSIVE B64Decode(_, _, _)
B64Decode(src, si, padded) ==
    IF si >= Len(src) THEN [ok |-> TRUE, bytes |-> <<>>]
    ELSE LET Rest(q, rest) ==
                 IF ~rest.ok THEN rest
                 ELSE [ok |-> TRUE,
                       bytes |-> B64Bytes(q.dbuf, q.dlen) \o rest.bytes]
             Quantum(q) ==
                 IF ~q.ok THEN [ok |-> FALSE, bytes |-> <<>>]
                 ELSE Rest(q, B64Decode(src, q.si, padded))
         IN  Quantum(B64Gather(src, si, 0, <<>>, padded))

\* StdEncoding.EncodeToString
RECURSIVE B64Encode(_)
B64Encode(data) ==
    IF data = <<>> THEN <<>>
    ELSE LET n == Min2(Len(data), 3)
             b == [i \in 1..3 |-> IF i <= n THEN data[i] ELSE 0]
             val == b[1] * 65536 + b[2] * 256 + b[3]
             c == <<B64Char(val \div 262144), B64Char((val \div 4096) % 64),
                    B64Char((val \div 64) % 64), B64Char(val % 64)>>
         IN  IF n = 3 THEN c \o B64Encode(SubSeq(data, 4, Len(data)))
             ELSE IF n = 2 THEN <<c[1], c[2], c[3], EQUALS>>
             ELSE <<c[1], c[2], EQUALS, EQUALS>>

-----------------------------------------------------------------------------
(* parser.go: byte sequences and the bare item *)

\* decodeBase64
decodeBase64(src, padded, p) ==
    LET Decoded(d) ==
            IF ~d.ok THEN R(<<>>, ParseError("Invalid base64 strings", p), p)
            ELSE R(d.bytes, nilErr, p)
    IN  Decoded(B64Decode(src, 0, padded))

\* parseByteSeq that decodes with StdEncoding only
parseByteSeq_StdOnly(in, p) ==
    LET Decode(src, q) == decodeBase64(src, TRUE, q + 1)
        Found(start, q) ==
            IF ~(q < Len(in) /\ in[q + 1] = STAR)
            THEN R(<<>>, ParseError("Couldn't parse byte sequence", start), start)
            ELSE Decode(Slice(in, start, q), q)
        Matched(m) ==
            IF ~m.err.nil THEN R(<<>>, m.err, m.pos)
            ELSE Found(m.pos, m.pos + RunLen(in, m.pos, ByteSeqClass))
    IN  Matched(matchByte(in, p, STAR))

\* parseByteSeq: the length-multiple-of-4 check is commented out in the source
parseByteSeq(in, p) ==
    LET Std(std, src, q) ==
            IF std.err.nil THEN std ELSE decodeBase64(src, FALSE, q + 1)
        Decode(src, q) == Std(decodeBase64(src, TRUE, q + 1), src, q)
        Found(start, q) ==
            IF ~(q < Len(in) /\ in[q + 1] = STAR)
            THEN R(<<>>, ParseError("Couldn't parse byte sequence", start), start)
            ELSE Decode(Slice(in, start, q), q)
        Matched(m) ==
            IF ~m.err.nil THEN R(<<>>, m.err, m.pos)
            ELSE Found(m.pos, m.pos + RunLen(in, m.pos, ByteSeqClass))
    IN  Matched(matchByte(in, p, STAR))

\* parseBareItem that takes any other byte for an item without a value
parseBareItem_NoDefaultError(in, p) ==
    LET String(r) ==
            IF ~r.err.nil THEN R(NilBareItem, r.err, r.pos)
            ELSE R(BareString(r.val), nilErr, r.pos)
        ByteSeq(r) ==
            IF ~r.err.nil THEN R(NilBareItem, r.err, r.pos)
            ELSE R(BareByteSeq(r.val), nilErr, r.pos)
        Bool(r) ==
            IF ~r.err.nil THEN R(NilBareItem, r.err, r.pos)
            ELSE R(BareBool(r.val), nilErr, r.pos)
        Token(r) ==
            IF ~r.err.nil THEN R(NilBareItem, r.err, r.pos)
            ELSE R(BareToken(r.val), nilErr, r.pos)
        Peeked(pk, b) ==
            IF ~pk.err.nil THEN R(NilBareItem, pk.err, p)
            ELSE IF b = DQUOTE THEN String(parseString(in, p))
            ELSE IF b = STAR THEN ByteSeq(parseByteSeq(in, p))
            ELSE IF b = QUESTION THEN Bool(parseBoolean(in, p))
            ELSE IF IsDigit(b) \/ b = MINUS THEN parseNumber(in, p)
            ELSE IF IsAlpha(b) THEN Token(parseToken(in, p))
            ELSE R(NilBareItem, nilErr, p)
    IN  Peeked(peekByte(in, p), peekByte(in, p).val)

\* parseBareItem: dispatch on the next byte
parseBareItem(in, p) ==
    LET String(r) ==
            IF ~r.err.nil THEN R(NilBareItem, r.err, r.pos)
            ELSE R(BareString(r.val), nilErr, r.pos)
        ByteSeq(r) ==
            IF ~r.err.nil THEN R(NilBareItem, r.err, r.pos)
            ELSE R(BareByteSeq(r.val), nilErr, r.pos)
        Bool(r) ==
            IF ~r.err.nil THEN R(NilBareItem, r.err, r.pos)
            ELSE R(BareBool(r.val), nilErr, r.pos)
        Token(r) ==
            IF ~r.err.nil THEN R(NilBareItem, r.err, r.pos)
            ELSE R(BareToken(r.val), nilErr, r.pos)
        Peeked(pk, b) ==
            IF ~pk.err.nil THEN R(NilBareItem, pk.err, p)
            ELSE IF b = DQUOTE THEN String(parseString(in, p))
            ELSE IF b = STAR THEN ByteSeq(parseByteSeq(in, p))
            ELSE IF b = QUESTION THEN Bool(parseBoolean(in, p))
            ELSE IF IsDigit(b) \/ b = MINUS THEN parseNumber(in, p)
            ELSE IF IsAlpha(b) THEN Token(parseToken(in, p))
            ELSE R(NilBareItem, ParseError("Unexpected character", p), p)
    IN  Peeked(peekByte(in, p), peekByte(in, p).val)

-----------------------------------------------------------------------------
(* serializer.go *)

\* what an append routine hands back: the bytes so far (nil on error) and the
\* error
S(b, e) == [b |-> b, err |-> e]

\* the largest Integer of a structured header
MaxSFInt == Num(FALSE, <<9, 9, 9, 9, 9, 9, 9, 9, 9, 9, 9, 9, 9, 9, 9>>, <<>>)

MinSFInt == Num(TRUE, <<9, 9, 9, 9, 9, 9, 9, 9, 9, 9, 9, 9, 9, 9, 9>>, <<>>)

\* appendBareItemInt without the lower bound
appendBareItemInt_NoLower(b, v) ==
    IF IntLess(MaxSFInt, v)
    THEN S(<<>>, SerializeError("Integers may not be larger than 15 digits"))
    ELSE S(b \o FormatInt(v), nilErr)

\* appendBareItemInt
appendBareItemInt(b, v) ==
    IF IntLess(v, MinSFInt) \/ IntLess(MaxSFInt, v)
    THEN S(<<>>, SerializeError("Integers may not be larger than 15 digits"))
    ELSE S(b \o FormatInt(v), nilErr)

\* appendBareItemFloat with the same limit of 15 bytes for either sign
appendBareItemFloat_NoSignRule(b, v) ==
    LET parts == FormatFloatParts(v)
        l0 == Len(parts[1])
    IN  IF l0 > 15
        THEN S(<<>>, SerializeError("the integer part may not be larger than 14 digits"))
        ELSE LET head == b \o parts[1] \o <<DOT>>
             IN  IF Len(parts) <= 1 THEN S(head \o <<DIGIT0>>, nilErr)
                 ELSE LET fracLen == Min2(Len(parts[2]), 15 - l0)
                      IN  S(head \o SubSeq(parts[2], 1, fracLen), nilErr)

\* appendBareItemFloat
appendBareItemFloat(b, v) ==
    LET parts == FormatFloatParts(v)
        l0 == Len(parts[1])
    IN  IF l0 > 15 \/ (FloatPositive(v) /\ l0 > 14)
        THEN S(<<>>, SerializeError("the integer part may not be larger than 14 digits"))
        ELSE LET head == b \o parts[1] \o <<DOT>>
             IN  IF Len(parts) <= 1 THEN S(head \o <<DIGIT0>>, nilErr)
                 ELSE LET fracLen == Min2(Len(parts[2]), 15 - l0)
                      IN  S(head \o SubSeq(parts[2], 1, fracLen), nilErr)

\* the string loop without the backslash before `\` and `"`
RECURSIVE AppendStringBytes_NoEscape(_, _)
AppendStringBytes_NoEscape(b, val) ==
    IF val = <<>> THEN S(b \o <<DQUOTE>>, nilErr)
    ELSE LET c == Head(val)
         IN  IF c < SP \/ c > TILDE
             THEN S(<<>>, SerializeError("invalid character in string"))
             ELSE AppendStringBytes_NoEscape(b \o <<c>>, Tail(val))

\* the string loop of appendBareItemString
RECURSIVE AppendStringBytes(_, _)
AppendStringBytes(b, val) ==
    IF val = <<>> THEN S(b \o <<DQUOTE>>, nilErr)
    ELSE LET c == Head(val)
         IN  IF c < SP \/ c > TILDE
             THEN S(<<>>, SerializeError("invalid character in string"))
             ELSE AppendStringBytes(
                      (IF c = BACKSLASH \/ c = DQUOTE THEN b \o <<BACKSLASH>> ELSE b)
                          \o <<c>>,
                      Tail(val))

\* appendBareItemString
appendBareItemString(b, val) == AppendStringBytes(b \o <<DQUOTE>>, val)

\* appendBareItemToken
appendBareItemToken(b, token) ==
    LET n == TokenMatchLen(token, 0)
    IN  IF n = 0 \/ n # Len(token)
        THEN S(<<>>, SerializeError("invalid token value"))
        ELSE S(b \o token, nilErr)

\* appendBareItemByteSeq
appendBareItemByteSeq(b, data) ==
    S(b \o <<STAR>> \o B64Encode(data) \o <<STAR>>, nilErr)

\* appendBareItemBool
appendBareItemBool(b, v) ==
    S(b \o <<QUESTION>> \o (IF v THEN <<DIGIT1>> ELSE <<DIGIT0>>), nilErr)

\* appendKey that writes the part of the key the expression matches
appendKey_MatchedPrefix(b, k) ==
    LET n == KeyMatchLen(k, 0)
    IN  IF n = 0
        THEN S(<<>>, SerializeError("keys must start with a-z"))
        ELSE S(b \o SubSeq(k, 1, n), nilErr)

\* appendKey
appendKey(b, k) ==
    LET n == KeyMatchLen(k, 0)
    IN  IF n = 0 \/ n # Len(k)
        THEN S(<<>>, SerializeError("keys must start with a-z"))
        ELSE S(b \o k, nilErr)

\* appendBareItem
appendBareItem(b, bi) ==
    CASE bi.type = ItemTypeString -> appendBareItemString(b, bi.s)
      [] bi.type = ItemTypeByteSeq -> appendBareItemByteSeq(b, bi.s)
      [] bi.type = ItemTypeBool -> appendBareItemBool(b, bi.b)
      [] bi.type = ItemTypeInt -> appendBareItemInt(b, bi.n)
      [] bi.type = ItemTypeFloat -> appendBareItemFloat(b, bi.n)
      [] bi.type = ItemTypeToken -> appendBareItemToken(b, bi.s)

\* the Range callback with a nil value written as the Boolean true
RECURSIVE AppendParamsFrom_NilAsTrue(_, _, _)
AppendParamsFrom_NilAsTrue(b, ps, i) ==
    IF i > Len(ps) THEN S(b, nilErr)
    ELSE LET Value(v) ==
                 IF ~v.err.nil THEN S(<<>>, v.err)
                 ELSE AppendParamsFrom_NilAsTrue(v.b, ps, i + 1)
             Key(k) ==
                 IF ~k.err.nil THEN S(<<>>, k.err)
                 ELSE Value(appendBareItem(
                                k.b \o <<EQUALS>>,
                                IF ps[i].value = NilBareItem THEN BareBool(TRUE)
                                ELSE ps[i].value))
         IN  Key(appendKey(b \o <<SEMICOLON>>, ps[i].name))

\* the Range callback of appendParameters over params[i..]
RECURSIVE AppendParamsFrom(_, _, _)
AppendParamsFrom(b, ps, i) ==
    IF i > Len(ps) THEN S(b, nilErr)
    ELSE LET Value(v) ==
                 IF ~v.err.nil THEN S(<<>>, v.err)
                 ELSE AppendParamsFrom(v.b, ps, i + 1)
             Key(k) ==
                 IF ~k.err.nil THEN S(<<>>, k.err)
                 ELSE IF ps[i].value = NilBareItem
                      THEN AppendParamsFrom(k.b, ps, i + 1)
                      ELSE Value(appendBareItem(k.b \o <<EQUALS>>, ps[i].value))
         IN  Key(appendKey(b \o <<SEMICOLON>>, ps[i].name))

\* appendParameters
appendParameters(b, ps) ==
    IF Len(ps) = 0 THEN S(b, nilErr) ELSE AppendParamsFrom(b, ps, 1)

\* appendItem
appendItem(b, it) ==
    LET Params(q) == IF ~q.err.nil THEN S(<<>>, q.err) ELSE q
        Bare(r) ==
            IF ~r.err.nil THEN S(<<>>, r.err)
            ELSE Params(appendParameters(r.b, it.params))
    IN  Bare(appendBareItem(b, it.bareItem))

\* the loop of appendInnerList over its[i..]
RECURSIVE AppendInnerItemsFrom(_, _, _)
AppendInnerItemsFrom(b, its, i) ==
    IF i > Len(its) THEN S(b, nilErr)
    ELSE LET Item(r) ==
                 IF ~r.err.nil THEN S(<<>>, r.err)
                 ELSE AppendInnerItemsFrom(r.b, its, i + 1)
         IN  Item(appendItem(IF i > 1 THEN b \o <<SP>> ELSE b, its[i]))

\* appendInnerList
appendInnerList(b, list) ==
    LET Params(q) == IF ~q.err.nil THEN S(<<>>, q.err) ELSE q
        Items(r) ==
            IF ~r.err.nil THEN S(<<>>, r.err)
            ELSE Params(appendParameters(r.b \o <<RPAREN>>, list.params))
    IN  Items(AppendInnerItemsFrom(b \o <<LPAREN>>, list.items, 1))

\* appendMember
appendMember(b, m) ==
    LET Appended(r) == IF ~r.err.nil THEN S(<<>>, r.err) ELSE r
    IN  IF m.type = MemberTypeInnerList
        THEN Appended(appendInnerList(b, m.innerList))
        ELSE Appended(appendItem(b, m.item))

\* the separator written before every member, the first one too
memberSeparator_Always(i) == <<COMMA, SP>>

\* appendList and appendDictionary: `if i > 0 { b = append(b, ", "...) }`,
\* for the i-th member counted from 1
memberSeparator(i) == IF i > 1 THEN <<COMMA, SP>> ELSE <<>>

\* the loop of appendList over list[i..]
RECURSIVE AppendListFrom(_, _, _)
AppendListFrom(b, list, i) ==
    IF i > Len(list) THEN S(b, nilErr)
    ELSE LET Member(r) ==
                 IF ~r.err.nil THEN S(<<>>, r.err)
                 ELSE AppendListFrom(r.b, list, i + 1)
         IN  Member(appendMember(b \o memberSeparator(i), list[i]))

\* appendList
appendList(b, list) == AppendListFrom(b, list, 1)

\* the Range callback of appendDictionary over dict[i..]
RECURSIVE AppendDictFrom(_, _, _)
AppendDictFrom(b, dict, i) ==
    IF i > Len(dict) THEN S(b, nilErr)
    ELSE LET Member(v) ==
                 IF ~v.err.nil THEN S(<<>>, v.err)
                 ELSE AppendDictFrom(v.b, dict, i + 1)
             Key(k) ==
                 IF ~k.err.nil THEN S(<<>>, k.err)
                 ELSE Member(appendMember(k.b \o <<EQUALS>>, dict[i].value))
         IN  Key(appendKey(b \o memberSeparator(i), dict[i].name))

\* appendDictionary
appendDictionary(b, dict) ==
    IF Len(dict) = 0 THEN S(b, nilErr) ELSE AppendDictFrom(b, dict, 1)

\* Serialize that hands back, with the error, the text of the members of a
\* List rendered before the failing one
Serialize_PartialOutput(v) ==
    LET Rendered(list, k) == appendList(<<>>, SubSeq(list, 1, k))
        Partial(list, r) ==
            IF r.err.nil THEN r
            ELSE S(Rendered(list,
                            MaxOf({k \in 0..Len(list) : Rendered(list, k).err.nil})).b,
                   r.err)
        Appended(r) == IF ~r.err.nil THEN S(<<>>, r.err) ELSE r
    IN  CASE v.kind = "Dictionary" -> Appended(appendDictionary(<<>>, v.dict))
          [] v.kind = "List" -> Partial(v.list, appendList(<<>>, v.list))
          [] v.kind = "Item" -> Appended(appendItem(<<>>, v.item))
          [] OTHER -> S(<<>>, SerializeError("invalid value type"))

\* Serializer.Serialize: the string and the error returned
Serialize(v) ==
    LET Appended(r) == IF ~r.err.nil THEN S(<<>>, r.err) ELSE r
    IN  CASE v.kind = "Dictionary" -> Appended(appendDictionary(<<>>, v.dict))
          [] v.kind = "List" -> Appended(appendList(<<>>, v.list))
          [] v.kind = "Item" -> Appended(appendItem(<<>>, v.item))
          [] OTHER -> S(<<>>, SerializeError("invalid value type"))

-----------------------------------------------------------------------------
(* The texts handed to NewParser *)

\* the printable ASCII characters, code 32 to 126 (the double quote, the
\* backslash and the backtick are written as words)
PrintableChars ==
    <<" ", "!", "dquote", "#", "$", "%", "&", "'", "(", ")", "*", "+", ",", "-",
      ".", "/", "0", "1", "2", "3", "4", "5", "6", "7", "8", "9", ":", ";",
      "<", "=", ">", "?", "@", "A", "B", "C", "D", "E", "F", "G", "H", "I",
      "J", "K", "L", "M", "N", "O", "P", "Q", "R", "S", "T", "U", "V", "W",
      "X", "Y", "Z", "[", "backslash", "]", "^", "_", "backtick", "a", "b", "c", "d", "e",
      "f", "g", "h", "i", "j", "k", "l", "m", "n", "o", "p", "q", "r", "s",
      "t", "u", "v", "w", "x", "y", "z", "{", "|", "}", "~">>

\* the byte code of a character
Ord(c) ==
    IF c = "\t" THEN HTAB
    ELSE (SP - 1) + CHOOSE i \in 1..Len(PrintableChars) : PrintableChars[i] = c

\* []byte(input) of a text given character by character
B(t) == [i \in 1..Len(t) |-> Ord(t[i])]

\* n times the byte c
Rep(c, n) == [i \in 1..n |-> c]

NineDigits15 == Rep(DIGIT9, 15)

\* the bytes the generated inputs are made of
GenAlphabet == {LOWER_A, DIGIT1, EQUALS, COMMA, SP, HTAB, LPAREN, RPAREN, SEMICOLON}

\* every byte string over GenAlphabet of length at most MaxLen
GenInputs == UNION {[1..n -> GenAlphabet] : n \in 0..MaxLen}

\* inputs that exercise the longer productions
FixedInputs ==
    { B(<<"a", ",", " ", "b", "=", "?", "0">>),
      B(<<"a", "=", "1", ",">>),
      B(<<"a", "=", "1", ",", " ", "\t">>),
      B(<<"a", ",", " ", "b", ",", " ">>),
      B(<<" ", "\t", " ", "\t", " ">>),
      B(<<"a", ";", "a", "=", "?", "1">>),
      B(<<"a", ";", "b", "=", "?", "0", ";", "a">>),
      B(<<"a", "=", "?", "1", ",", " ", "b", "=", "?", "0">>),
      B(<<"a", "=", "1", ",", " ", "a", "=", "2">>),
      B(<<"a", "=", "1", ",", "b", "=", "(", "a", " ", "1", ")", ";", "a">>),
      B(<<"x", ";", "a", ";", "a">>),
      B(<<"x", ";", "a", "=", "1", ";", "a", "=", "2">>),
      B(<<"(", "x", ")", ";", "a", ";", "a">>),
      B(<<"x", ";", "a", ",", " ", "y", ";", "a">>),
      B(<<"(", "x", ";", "a", " ", "y", ";", "a", ")", ";", "a">>),
      B(<<"a", "=", "1", ",", " ", "=", "2">>),
      B(<<"a", "=", "1", ",", "=", "2", ",", "=", "3">>),
      B(<<"a", "=", "(">>),
      B(<<"a", "=", "(", "b">>),
      B(<<"a", ",", " ", "(">>),
      B(<<"(", "a", " ", " ", "b", ")">>),
      B(<<"(", "a", "\t", "b", ")">>),
      B(<<"(", "a", " ", "\t", "b", ")">>),
      B(<<"(", " ", "a", " ", "b", " ", ")">>),
      B(<<"(", "a", " ", "b", ")">>),
      B(<<"(", "a", " ", "b", ")", ";", "x", "=", "1">>),
      B(<<"a", ",", " ", "b", ",", " ", "1", " ", "x">>),
      B(<<"a", ",", " ", "b", ",", " ", "(", "c", " ", "d">>),
      B(<<"a", "=", "1", ",", " ", "b", "=", "2", ",", " ", "c">>),
      B(<<"a", ",", "(", "a", " ", "1", ")", ";", "a", ",", " ", " ", "?", "1">>),
      B(<<"a", "=", "1", ",", "b", "=", "(", "a", ")", ",", "\t", "c", "=", "?", "0">>),
      NineDigits15,
      <<MINUS>> \o NineDigits15,
      <<DIGIT1>> \o Rep(DIGIT0, 15),
      <<MINUS, DIGIT1>> \o Rep(DIGIT0, 15),
      <<DIGIT0>> \o NineDigits15,
      <<MINUS, DIGIT0>> \o Rep(DIGIT1, 14),
      Rep(DIGIT1, 14),
      Rep(DIGIT1, 16),
      <<MINUS>> \o Rep(DIGIT1, 16),
      B(<<"0", "0", "7">>),
      B(<<"-", "0">>),
      B(<<"-">>),
      B(<<"-", "4", "2">>),
      B(<<"1", ".", "5">>),
      B(<<"-", ".", "5">>),
      B(<<"-", "0", ".", "0">>),
      B(<<"0", "1", ".", "5", "0">>),
      B(<<"1", ".">>),
      B(<<"1", ".", "1", "2", "3", "4", "5", "6", "7">>),
      B(<<"1", ".", "1", "2", "3", "4", "5", "6">>),
      B(<<"-", "1", ".", "5", ".", "5">>),
      B(<<"-", "-", "1">>),
      <<DIGIT1>> \o Rep(DIGIT0, 15) \o <<DOT, DIGIT0>>,
      <<MINUS>> \o Rep(DIGIT1, 14) \o <<DOT, DIGIT1 + 4>>,
      Rep(DIGIT1, 14) \o <<DOT, DIGIT1 + 4>>,
      B(<<"dquote", "a", "backslash", "dquote", "b", "backslash", "backslash", "dquote">>),
      B(<<"dquote", "a">>),
      B(<<"*", "a", "G", "V", "s", "b", "G", "8", "=", "*">>),
      B(<<"*", "a", "G", "V", "s", "b", "G", "8", "*">>),
      B(<<"*", "Y", "R", "=", "=", "*">>),
      B(<<"*", "a", "G", "V", "s", "b", "A", "=", "=", "*">>),
      B(<<"*", "a", "G", "V", "s", "b", "A", "*">>),
      B(<<"*", "a", "G", "V", "s", "b", "G", "8", "=", "=", "*">>),
      B(<<"*", "a", "G", "V", "=", "s", "b", "G", "8", "*">>),
      B(<<"*", "Y", "*">>),
      B(<<"*", "*">>),
      B(<<"?", "1">>),
      B(<<"?", "2">>),
      B(<<"t", "/", "k", ";", "b", "=", "?", "1", ";", "c">>),
      B(<<"a", "=", "1", ";", "x", "=", "dquote", "s", "dquote", ",", " ", "b", "=", "(", "1", ".", "2", "5", " ", "?", "0", ")", ";", "y">>),
      Rep(LOWER_A, KeyMaxTail + 1) \o B(<<"=", "1">>),
      Rep(LOWER_A, KeyMaxTail + 2) \o B(<<"=", "1">>),
      B(<<"x", ";">>) \o Rep(LOWER_A, KeyMaxTail + 2) }

\* the bytes the generated base64 contents are made of: Y, Q, R, / and =
B64GenAlphabet == {UPPER_A + 24, UPPER_A + 16, UPPER_A + 17, SLASH, EQUALS}

\* every byte sequence `*content*` with a content over B64GenAlphabet
ByteSeqInputs ==
    { <<STAR>> \o c \o <<STAR>> :
        c \in UNION {[1..n -> B64GenAlphabet] : n \in 0..MaxB64Len} }

\* the bytes after the opening quote of the generated strings
StrInputAlphabet == {LOWER_A, TILDE, DQUOTE, BACKSLASH, SP - 1, TILDE + 1}

\* every text of an opening quote and at most MaxStrLen + 1 bytes after it
StringInputs ==
    { <<DQUOTE>> \o c :
        c \in UNION {[1..n -> StrInputAlphabet] : n \in 0..(MaxStrLen + 1)} }

Inputs == GenInputs \cup FixedInputs \cup ByteSeqInputs \cup StringInputs

-----------------------------------------------------------------------------
(* Values a caller builds with NewBareItem, NewItem, NewInnerList, NewMember, *)
(* NewParameters/Store and NewDictionary/Store                               *)

KeyA == <<LOWER_A>>
KeyB == <<LOWER_A + 1>>

\* int64 payloads around the structured-header and the int64 limits
IntSamples ==
    { NumZero,
      Num(FALSE, <<4, 2>>, <<>>),
      Num(TRUE, <<1>>, <<>>),
      MaxSFInt,
      MinSFInt,
      Num(FALSE, <<9, 9, 9, 9, 9, 9, 9, 9, 9, 9, 9, 9, 9, 9, 8>>, <<>>),
      Num(FALSE, <<1, 0, 0, 0, 0, 0, 0, 0, 0, 0, 0, 0, 0, 0, 0, 0>>, <<>>),
      Num(TRUE, <<1, 0, 0, 0, 0, 0, 0, 0, 0, 0, 0, 0, 0, 0, 0, 0>>, <<>>),
      Num(FALSE, <<1, 0, 0, 0, 0, 0, 0, 0, 0, 0, 0, 0, 0, 0, 0, 1>>, <<>>),
      Num(FALSE, <<9, 2, 2, 3, 3, 7, 2, 0, 3, 6, 8, 5, 4, 7, 7, 5, 8, 0, 7>>, <<>>),
      Num(TRUE, <<9, 2, 2, 3, 3, 7, 2, 0, 3, 6, 8, 5, 4, 7, 7, 5, 8, 0, 8>>, <<>>) }

TokenItem == NewItem(BareToken(KeyA), <<>>)

\* one Integer at each place a scalar can stand
BuiltWithInt(n) ==
    { ItemValue(NewItem(BareInt(n), <<>>)),
      ItemValue(NewItem(BareToken(KeyA), Store(<<>>, KeyA, BareInt(n)))),
      ListValue(<<ItemMember(TokenItem),
                  ItemMember(NewItem(BareInt(n), <<>>))>>),
      ListValue(<<InnerListMember(
                            NewInnerList(<<TokenItem, NewItem(BareInt(n), <<>>)>>,
                                         <<>>))>>),
      ListValue(<<InnerListMember(
                            NewInnerList(<<TokenItem>>,
                                         Store(<<>>, KeyB, BareInt(n))))>>),
      DictionaryValue(Store(Store(<<>>, KeyA, ItemMember(TokenItem)),
                            KeyB,
                            ItemMember(NewItem(BareInt(n), <<>>)))) }

BuiltIntValues == UNION {BuiltWithInt(n) : n \in IntSamples}

\* float64 values of at most 15 significant digits, which FormatFloat
\* renders digit for digit: integer parts of 1, 9, 13, 14 and 15 digits
FloatSamples ==
    { Num(FALSE, <<0>>, <<>>),
      Num(TRUE, <<0>>, <<>>),
      Num(FALSE, <<1>>, <<5>>),
      Num(TRUE, <<1>>, <<5>>),
      Num(FALSE, <<0>>, <<0, 0, 0, 0, 0, 1>>),
      Num(FALSE, <<1, 2, 3, 4, 5, 6, 7, 8, 9>>, <<1, 2, 3, 4, 5, 6>>),
      Num(TRUE, <<1, 2, 3, 4, 5, 6, 7, 8, 9>>, <<1, 2, 3, 4, 5, 6>>),
      Num(FALSE, <<1, 2, 3, 4, 5, 6, 7, 8, 9, 0, 1, 2, 3>>, <<2, 5>>),
      Num(TRUE, <<1, 2, 3, 4, 5, 6, 7, 8, 9, 0, 1, 2, 3>>, <<2, 5>>),
      Num(FALSE, <<1, 2, 3, 4, 5, 6, 7, 8, 9, 0, 1, 2, 3, 4>>, <<>>),
      Num(TRUE, <<1, 2, 3, 4, 5, 6, 7, 8, 9, 0, 1, 2, 3, 4>>, <<>>),
      Num(FALSE, <<1, 2, 3, 4, 5, 6, 7, 8, 9, 0, 1, 2, 3, 4>>, <<5>>),
      Num(TRUE, <<1, 2, 3, 4, 5, 6, 7, 8, 9, 0, 1, 2, 3, 4>>, <<5>>),
      Num(FALSE, <<1, 0, 0, 0, 0, 0, 0, 0, 0, 0, 0, 0, 0, 0, 0>>, <<>>),
      Num(TRUE, <<1, 0, 0, 0, 0, 0, 0, 0, 0, 0, 0, 0, 0, 0, 0>>, <<>>),
      Num(TRUE, <<1, 2, 3, 4, 5, 6, 7, 8, 9, 0, 1, 2, 3, 4, 5>>, <<>>) }

\* one Decimal as an Item, and as the value of a parameter
BuiltWithFloat(n) ==
    { ItemValue(NewItem(BareFloat(n), <<>>)),
      ItemValue(NewItem(BareToken(KeyA), Store(<<>>, KeyA, BareFloat(n)))) }

BuiltFloatValues == UNION {BuiltWithFloat(n) : n \in FloatSamples}

\* a parameter without a value, and with a Boolean value, on an Item and on
\* an inner list
ParamValueSamples == {NilBareItem, BareBool(TRUE), BareBool(FALSE)}

BuiltWithParam(pv) ==
    { ItemValue(NewItem(BareToken(KeyA), Store(<<>>, KeyA, pv))),
      ItemValue(NewItem(BareToken(KeyA),
                        Store(Store(<<>>, KeyA, pv), KeyB, NilBareItem))),
      ListValue(<<InnerListMember(
                      NewInnerList(<<TokenItem>>, Store(<<>>, KeyB, pv)))>>) }

BuiltParamValues == UNION {BuiltWithParam(pv) : pv \in ParamValueSamples}

\* identifiers a caller may hand over as a key or as a Token: valid ones,
\* the empty one, ones with a byte outside the class at the start or after a
\* valid prefix, and ones of 255 and 256 bytes
IdentSamples ==
    { <<>>,
      KeyA,
      B(<<"a", "*">>),
      B(<<"a", "/", "b">>),
      B(<<"A">>),
      B(<<"a", "B">>),
      B(<<"a", "!">>),
      B(<<"a", " ", "b">>),
      B(<<"1", "a">>),
      Rep(LOWER_A, KeyMaxTail + 1),
      Rep(LOWER_A, KeyMaxTail + 2) }

\* one identifier at each place a key or a Token can stand
BuiltWithIdent(id) ==
    { ItemValue(NewItem(BareToken(id), <<>>)),
      ItemValue(NewItem(BareToken(KeyA), Store(<<>>, id, BareBool(TRUE)))),
      ItemValue(NewItem(BareToken(KeyA),
                        Store(Store(<<>>, KeyB, NilBareItem), id, NilBareItem))),
      ItemValue(NewItem(BareBool(TRUE), Store(<<>>, KeyA, BareToken(id)))),
      ListValue(<<ItemMember(TokenItem),
                  InnerListMember(
                      NewInnerList(<<TokenItem, NewItem(BareToken(id), <<>>)>>,
                                   <<>>))>>),
      ListValue(<<ItemMember(TokenItem),
                  InnerListMember(
                      NewInnerList(<<TokenItem>>, Store(<<>>, id, NilBareItem)))>>),
      DictionaryValue(Store(<<>>, id, ItemMember(TokenItem))),
      DictionaryValue(Store(Store(<<>>, KeyB, ItemMember(TokenItem)),
                            id,
                            ItemMember(TokenItem))) }

BuiltIdentValues == UNION {BuiltWithIdent(id) : id \in IdentSamples}

\* the bytes the built Strings are made of: printable ones, the two that
\* are escaped, and bytes below 0x20 and above 0x7E
StrGenAlphabet ==
    {LOWER_A, SP, TILDE, DQUOTE, BACKSLASH, 0, SP - 1, TILDE + 1, 255}

StringSamples == UNION {[1..n -> StrGenAlphabet] : n \in 0..MaxStrLen}

\* one String as an Item, and as the value of a parameter
BuiltWithString(str) ==
    { ItemValue(NewItem(BareString(str), <<>>)),
      ItemValue(NewItem(BareToken(KeyA), Store(<<>>, KeyA, BareString(str)))) }

BuiltStringValues == UNION {BuiltWithString(str) : str \in StringSamples}

BuiltValues ==
    BuiltIntValues \cup BuiltFloatValues \cup BuiltParamValues
        \cup BuiltIdentValues \cup BuiltStringValues

-----------------------------------------------------------------------------
(* The state machine: a caller, and the parser's routines as it runs them *)

NilMember == [type |-> "nil", item |-> NilItem, innerList |-> NilInnerList]

parserLocals == <<output, key, items, bareItem, params, itemCtx, paramsCtx, member>>

-----------------------------------------------------------------------------
(* types.go: parameters and dictionary, each a slice of (name, value) items.
   A slice is a backing array `arr`, of which the first `len` entries are
   the slice's; Len(arr) is its capacity. *)

KeyC == <<LOWER_A + 2>>

\* the keys and the values the caller stores
MapKeys == {KeyA, KeyB, KeyC}

ValuesOf(kind) ==
    IF kind = "Dictionary"
    THEN {ItemMember(TokenItem), ItemMember(NewItem(BareBool(TRUE), <<>>))}
    ELSE {NilBareItem, BareBool(TRUE)}

\* paramItem{} / dictItem{}
ZeroEntry(kind) ==
    [name |-> <<>>,
     value |-> IF kind = "Dictionary" THEN NilMember ELSE NilBareItem]

NoContainer == [kind |-> "none", arr |-> <<>>, len |-> 0]

\* NewParameters / NewDictionary: the items slice is nil
NewContainer(kind) == [kind |-> kind, arr |-> <<>>, len |-> 0]

\* p.items
Live(c) == SubSeq(c.arr, 1, c.len)

\* cap(p.items)
Cap(c) == Len(c.arr)

\* Len
ContLen(c) == c.len

\* append(p.items, item) has to allocate a new backing array
Reallocates(c, name) == index(Live(c), name) = -1 /\ c.len = Cap(c)

\* Store that appends without looking for the name
sliceStore_AlwaysAppends(c, name, v, newcap) ==
    IF c.len < Cap(c)
    THEN [c EXCEPT !.arr[c.len + 1] = [name |-> name, value |-> v],
                   !.len = c.len + 1]
    ELSE [c EXCEPT !.arr = Live(c) \o <<[name |-> name, value |-> v]>>
                              \o [j \in 1..(newcap - c.len - 1) |-> ZeroEntry(c.kind)],
                   !.len = c.len + 1]

\* parameters.Store / dictionary.Store on the slice; newcap is the capacity
\* append picks when it allocates
sliceStore(c, name, v, newcap) ==
    LET i == index(Live(c), name)
    IN  IF i # -1 THEN [c EXCEPT !.arr[i + 1].value = v]
        ELSE IF c.len < Cap(c)
        THEN [c EXCEPT !.arr[c.len + 1] = [name |-> name, value |-> v],
                       !.len = c.len + 1]
        ELSE [c EXCEPT !.arr = Live(c) \o <<[name |-> name, value |-> v]>>
                                  \o [j \in 1..(newcap - c.len - 1) |->
                                          ZeroEntry(c.kind)],
                       !.len = c.len + 1]

\* Delete that drops the last item without moving the others
sliceDelete_NoCopy(c, name) ==
    IF index(Live(c), name) = -1 THEN c
    ELSE [c EXCEPT !.arr[c.len] = ZeroEntry(c.kind), !.len = c.len - 1]

\* parameters.Delete / dictionary.Delete on the slice: the items after the
\* one found move one place down, the last place is zeroed
sliceDelete(c, name) ==
    LET i == index(Live(c), name)
    IN  IF i = -1 THEN c
        ELSE [c EXCEPT !.arr = [j \in 1..Cap(c) |->
                                   IF j <= i THEN c.arr[j]
                                   ELSE IF j < c.len THEN c.arr[j + 1]
                                   ELSE IF j = c.len THEN ZeroEntry(c.kind)
                                   ELSE c.arr[j]],
                       !.len = c.len - 1]

\* dictionary.Load: the value and the found flag
LoadMember(its, name) ==
    LET i == index(its, name)
    IN  IF i = -1 THEN [value |-> NilMember, ok |-> FALSE]
        ELSE [value |-> its[i + 1].value, ok |-> TRUE]

\* no Range call yet
NoRange ==
    [started |-> FALSE, i |-> 0, n |-> 0, shared |-> FALSE, arr |-> <<>>,
     visited |-> <<>>, modified |-> FALSE, stopped |-> FALSE, ret |-> TRUE]

\* `for _, it := range p.items`: the slice is read once, so the loop keeps
\* its length n and its backing array (shared with p.items until a Store
\* allocates a new one)
RangeBegin(c) ==
    [started |-> TRUE, i |-> 0, n |-> c.len, shared |-> TRUE, arr |-> <<>>,
     visited |-> <<>>, modified |-> FALSE, stopped |-> FALSE, ret |-> TRUE]

\* the item the loop reads at its index i
RangeItem(c, r) == IF r.shared THEN c.arr[r.i + 1] ELSE r.arr[r.i + 1]

\* the loop goes on whatever the visitor returns
rangeContinues_Always(ret) == TRUE

\* `if !f(it.name, it.value) { return }`
rangeContinues(ret) == ret

\* the Range call has returned: its slice is dead
RangeEnd(r, stopped) ==
    [r EXCEPT !.shared = FALSE, !.arr = <<>>, !.stopped = stopped]

NoOp == [n |-> 0, op |-> "none", name |-> <<>>, value |-> NilBareItem]

Init ==
    /\ cont = NoContainer
    /\ rng = NoRange
    /\ lastOp = NoOp
    /\ stamp = [k \in MapKeys |-> 0]
    /\ input = <<>>
    /\ pos = 0
    /\ pc = "idle"
    /\ entry = "none"
    /\ output = <<>>
    /\ key = <<>>
    /\ items = <<>>
    /\ bareItem = NilBareItem
    /\ params = <<>>
    /\ itemCtx = "none"
    /\ paramsCtx = "none"
    /\ member = NilMember
    /\ value = Nil
    /\ err = nilErr
    /\ out = S(<<>>, nilErr)
    /\ round = 1
    /\ firstOut = <<>>

\* the value built so far is handed to the caller together with the error
ReturnValue_Partial(v, e) == v

\* ParseDictionary, ParseList, ParseItem: the value handed to the caller
\* (`return nil, err` on either error, `return dict, nil` otherwise)
ReturnValue(v, e) == IF ~e.nil THEN Nil ELSE v

\* the value the entry point in progress has built, given its output/items
Built(o, bi, ps) ==
    CASE entry = "Dictionary" -> DictionaryValue(o)
      [] entry = "List" -> ListValue(o)
      [] OTHER -> ItemValue(NewItem(bi, ps))

\* an error return out of the routine in progress, through its callers
ReturnError(e, p, partial) ==
    /\ pc' = "done"
    /\ pos' = p
    /\ err' = e
    /\ value' = ReturnValue(partial, e)
    /\ UNCHANGED <<input, entry, out, round, firstOut>>

\* the routine goes on at newpc with the cursor at p
Goto(newpc, p) ==
    /\ pc' = newpc
    /\ pos' = p
    /\ UNCHANGED <<input, entry, value, err, out, round, firstOut>>

\* NewParser(s)
NewParser(s) ==
    /\ pc = "idle"
    /\ UNCHANGED mapVars
    /\ input' = s
    /\ pos' = skipOWS(s, 0)
    /\ pc' = "ready"
    /\ UNCHANGED <<entry, parserLocals, value, err, out, round, firstOut>>

\* ParseDictionary is called: parseDictionary starts with an empty output
ParseDictionary ==
    /\ pc = "ready"
    /\ UNCHANGED mapVars
    /\ round = 1 \/ entry = "Dictionary"
    /\ entry' = "Dictionary"
    /\ output' = <<>>
    /\ pc' = "dictLoop"
    /\ UNCHANGED <<input, pos, key, items, bareItem, params, itemCtx, paramsCtx,
                   member, value, err, out, round, firstOut>>

\* ParseList is called: parseList starts with an empty output
ParseList ==
    /\ pc = "ready"
    /\ UNCHANGED mapVars
    /\ round = 1 \/ entry = "List"
    /\ entry' = "List"
    /\ output' = <<>>
    /\ pc' = "listLoop"
    /\ UNCHANGED <<input, pos, key, items, bareItem, params, itemCtx, paramsCtx,
                   member, value, err, out, round, firstOut>>

\* ParseItem is called: it calls parseItem
ParseItem ==
    /\ pc = "ready"
    /\ UNCHANGED mapVars
    /\ round = 1 \/ entry = "Item"
    /\ entry' = "Item"
    /\ itemCtx' = "top"
    /\ pc' = "item"
    /\ UNCHANGED <<input, pos, output, key, items, bareItem, params, paramsCtx,
                   member, value, err, out, round, firstOut>>

\* no duplicate-key test: Store then replaces the first value
isDuplicate_Never(its, name) == FALSE

\* the duplicate-key test of parseDictionary and of parseParameters
isDuplicate(its, name) == index(its, name) # -1

\* parseDictionary, head of one loop iteration: the key and the equals sign
\* (the error of parseKey is overwritten by that of matchByte, unread)
DictLoop ==
    /\ pc = "dictLoop"
    /\ UNCHANGED mapVars
    /\ IF eol(input, pos)
       THEN Goto("end", pos) /\ UNCHANGED parserLocals
       ELSE LET EqualsSign(k, m) ==
                    IF ~m.err.nil
                    THEN /\ ReturnError(m.err, m.pos, Built(output, bareItem, params))
                         /\ UNCHANGED parserLocals
                    ELSE /\ Goto("member", m.pos)
                         /\ key' = k.val
                         /\ UNCHANGED <<output, items, bareItem, params, itemCtx,
                                        paramsCtx, member>>
                Key(k) ==
                    IF isDuplicate(output, k.val)
                    THEN /\ ReturnError(
                                ParseError("Duplicate key in dictionary", k.pos),
                                k.pos, Built(output, bareItem, params))
                         /\ UNCHANGED parserLocals
                    ELSE EqualsSign(k, matchByte(input, k.pos, EQUALS))
            IN  Key(parseKey(input, pos))

\* parseList, head of one loop iteration
ListLoop ==
    /\ pc = "listLoop"
    /\ UNCHANGED mapVars
    /\ IF eol(input, pos) THEN Goto("end", pos) ELSE Goto("member", pos)
    /\ UNCHANGED parserLocals

\* parseMember: an inner list or an item
ParseMember ==
    /\ pc = "member"
    /\ UNCHANGED mapVars
    /\ LET pk == peekByte(input, pos)
       IN  IF ~pk.err.nil
           THEN /\ ReturnError(pk.err, pos, Built(output, bareItem, params))
                /\ UNCHANGED parserLocals
           ELSE IF pk.val = LPAREN
           THEN /\ Goto("innerLoop", matchByte(input, pos, LPAREN).pos)
                /\ items' = <<>>
                /\ UNCHANGED <<output, key, bareItem, params, itemCtx, paramsCtx,
                               member>>
           ELSE /\ Goto("item", pos)
                /\ itemCtx' = "member"
                /\ UNCHANGED <<output, key, items, bareItem, params, paramsCtx,
                               member>>

\* parseInnerList, head of one loop iteration; when the loop ends, the call of
\* parseParameters for the list
InnerLoop ==
    /\ pc = "innerLoop"
    /\ UNCHANGED mapVars
    /\ IF eol(input, pos)
       THEN /\ Goto("params", pos)
            /\ params' = <<>>
            /\ paramsCtx' = "innerList"
            /\ UNCHANGED <<output, key, items, bareItem, itemCtx, member>>
       ELSE LET p1 == skipOWS(input, pos)
                pk == peekByte(input, p1)
            IN  IF ~pk.err.nil
                THEN /\ ReturnError(pk.err, p1, Built(output, bareItem, params))
                     /\ UNCHANGED parserLocals
                ELSE IF pk.val = RPAREN
                THEN /\ Goto("params", p1 + 1)
                     /\ params' = <<>>
                     /\ paramsCtx' = "innerList"
                     /\ UNCHANGED <<output, key, items, bareItem, itemCtx, member>>
                ELSE /\ Goto("item", p1)
                     /\ itemCtx' = "inner"
                     /\ UNCHANGED <<output, key, items, bareItem, params,
                                    paramsCtx, member>>

\* parseItem: the bare item, then the call of parseParameters
ParseItemBare ==
    /\ pc = "item"
    /\ UNCHANGED mapVars
    /\ LET Bare(r) ==
               IF ~r.err.nil
               THEN /\ ReturnError(r.err, r.pos, Built(output, bareItem, params))
                    /\ UNCHANGED parserLocals
               ELSE /\ Goto("params", r.pos)
                    /\ bareItem' = r.val
                    /\ params' = <<>>
                    /\ paramsCtx' = "item"
                    /\ UNCHANGED <<output, key, items, itemCtx, member>>
       IN  Bare(parseBareItem(input, pos))

\* parseParameters, one loop iteration, or the end of the loop
ParseParameters ==
    /\ pc = "params"
    /\ UNCHANGED mapVars
    /\ IF eol(input, pos) \/ peekByte(input, pos).val # SEMICOLON
       THEN /\ Goto(IF paramsCtx = "item" THEN "itemRet" ELSE "innerRet", pos)
            /\ UNCHANGED parserLocals
       ELSE LET Value(k, v) ==
                    IF ~v.err.nil
                    THEN /\ ReturnError(v.err, v.pos, Built(output, bareItem, params))
                         /\ UNCHANGED parserLocals
                    ELSE /\ Goto("params", v.pos)
                         /\ params' = Store(params, k.val, v.val)
                         /\ UNCHANGED <<output, key, items, bareItem, itemCtx,
                                        paramsCtx, member>>
                Key(k) ==
                    IF ~k.err.nil
                    THEN /\ ReturnError(k.err, k.pos, Built(output, bareItem, params))
                         /\ UNCHANGED parserLocals
                    ELSE IF isDuplicate(params, k.val)
                    THEN /\ ReturnError(ParseError("Duplicate parameter key", k.pos),
                                        k.pos, Built(output, bareItem, params))
                         /\ UNCHANGED parserLocals
                    ELSE IF ~eol(input, k.pos) /\ peekByte(input, k.pos).val = EQUALS
                    THEN Value(k, parseBareItem(input, k.pos + 1))
                    ELSE /\ Goto("params", k.pos)
                         /\ params' = Store(params, k.val, NilBareItem)
                         /\ UNCHANGED <<output, key, items, bareItem, itemCtx,
                                        paramsCtx, member>>
            IN  Key(parseKey(input, skipOWS(input, pos + 1)))

\* a tab taken as a separator too
innerSeparatorOK_Tab(b) == b = SP \/ b = HTAB \/ b = RPAREN

\* the byte parseInnerList wants after an item
innerSeparatorOK(b) == b = SP \/ b = RPAREN

\* parseItem returns its Item to ParseItem, to parseMember or to
\* parseInnerList, which appends it and looks at the byte after it
ParseItemReturn ==
    /\ pc = "itemRet"
    /\ UNCHANGED mapVars
    /\ LET it == NewItem(bareItem, params)
       IN  CASE itemCtx = "top" ->
                    Goto("end", pos) /\ UNCHANGED parserLocals
             [] itemCtx = "member" ->
                    /\ Goto("memberRet", pos)
                    /\ member' = ItemMember(it)
                    /\ UNCHANGED <<output, key, items, bareItem, params, itemCtx,
                                   paramsCtx>>
             [] itemCtx = "inner" ->
                    LET pk == peekByte(input, pos)
                    IN  /\ items' = Append(items, it)
                        /\ UNCHANGED <<output, key, bareItem, params, itemCtx,
                                       paramsCtx, member>>
                        /\ IF ~pk.err.nil
                           THEN ReturnError(pk.err, pos,
                                            Built(output, bareItem, params))
                           ELSE IF ~innerSeparatorOK(pk.val)
                           THEN ReturnError(
                                    ParseError("Malformed list. Expected whitespace or )",
                                               pos),
                                    pos, Built(output, bareItem, params))
                           ELSE Goto("innerLoop", pos)

\* parseInnerList returns its InnerList to parseMember
ParseInnerListReturn ==
    /\ pc = "innerRet"
    /\ UNCHANGED mapVars
    /\ Goto("memberRet", pos)
    /\ member' = InnerListMember(NewInnerList(items, params))
    /\ UNCHANGED <<output, key, items, bareItem, params, itemCtx, paramsCtx>>

\* a comma at the end of the input is taken for the end of the members
trailingComma_Allowed(in, p) == FALSE

\* after the comma and skipOWS: `if p.eol()`, the trailing-comma error
trailingComma(in, p) == eol(in, p)

\* parseDictionary and parseList, rest of one loop iteration: the member is
\* stored, then the separator
ParseMemberReturn ==
    /\ pc = "memberRet"
    /\ UNCHANGED mapVars
    /\ LET Separated(o, p2) ==
               IF trailingComma(input, p2)
               THEN ReturnError(ParseError("Unexpected end of string", p2), p2,
                                Built(o, bareItem, params))
               ELSE Goto(IF entry = "Dictionary" THEN "dictLoop" ELSE "listLoop", p2)
           Comma(o, m) ==
               IF ~m.err.nil
               THEN ReturnError(m.err, m.pos, Built(o, bareItem, params))
               ELSE Separated(o, skipOWS(input, m.pos))
           Stored(o, p1) ==
               /\ output' = o
               /\ UNCHANGED <<key, items, bareItem, params, itemCtx, paramsCtx,
                              member>>
               /\ IF eol(input, p1) THEN Goto("end", p1)
                  ELSE Comma(o, matchByte(input, p1, COMMA))
       IN  Stored(IF entry = "Dictionary" THEN Store(output, key, member)
                  ELSE Append(output, member),
                  skipOWS(input, pos))

\* end without the test for remaining input
end_NoCheck(in, p) == R(0, nilErr, skipOWS(in, p))

\* Parser.end
end(in, p) ==
    LET p1 == skipOWS(in, p)
    IN  IF ~eol(in, p1)
        THEN R(0, ParseError("Expected end of the string, but found more data instead",
                             p1), p1)
        ELSE R(0, nilErr, p1)

\* ParseDictionary, ParseList, ParseItem after the production: end, and the
\* return to the caller
End ==
    /\ pc = "end"
    /\ UNCHANGED mapVars
    /\ LET e == end(input, pos)
       IN  /\ pc' = "done"
           /\ pos' = e.pos
           /\ err' = e.err
           /\ value' = ReturnValue(Built(output, bareItem, params), e.err)
    /\ UNCHANGED <<input, entry, parserLocals, out, round, firstOut>>

\* the caller builds a value with the constructors of types.go
Build(v) ==
    /\ pc = "idle"
    /\ UNCHANGED mapVars
    /\ value' = v
    /\ pc' = "built"
    /\ UNCHANGED <<input, pos, entry, parserLocals, err, out, round, firstOut>>

\* the caller serializes the value it holds
CallSerialize ==
    /\ pc \in {"done", "built"}
    /\ UNCHANGED mapVars
    /\ err.nil
    /\ out' = Serialize(value)
    /\ pc' = "serialized"
    /\ UNCHANGED <<input, pos, entry, parserLocals, value, err, round, firstOut>>

\* the caller parses the text it has serialized, with the same entry point
Reparse ==
    /\ pc = "serialized"
    /\ UNCHANGED mapVars
    /\ round = 1
    /\ entry # "none"
    /\ out.err.nil
    /\ input' = out.b
    /\ pos' = skipOWS(out.b, 0)
    /\ round' = 2
    /\ firstOut' = out.b
    /\ pc' = "ready"
    /\ UNCHANGED <<entry, parserLocals, value, err, out>>

\* the caller parses the text serialized from the value it built, with the
\* entry point of the value's kind
ReparseBuilt ==
    /\ pc = "serialized"
    /\ UNCHANGED mapVars
    /\ round = 1
    /\ entry = "none"
    /\ out.err.nil
    /\ input' = out.b
    /\ pos' = skipOWS(out.b, 0)
    /\ round' = 3
    /\ firstOut' = out.b
    /\ entry' = value.kind
    /\ pc' = "ready"
    /\ UNCHANGED <<parserLocals, value, err, out>>

-----------------------------------------------------------------------------
(* The caller edits and ranges over a Parameters or a Dictionary *)

\* NewParameters() or NewDictionary()
CallNew(kind) ==
    /\ pc = "idle"
    /\ pc' = "map"
    /\ cont' = NewContainer(kind)
    /\ UNCHANGED <<rng, lastOp, stamp>>
    /\ UNCHANGED parserVars

\* what a Store or Delete does to the Range loop in progress: a Store that
\* allocates leaves the loop on the old backing array
RangeAfter(r, reallocated) ==
    IF reallocated /\ r.shared
    THEN [r EXCEPT !.shared = FALSE, !.arr = cont.arr, !.modified = TRUE]
    ELSE [r EXCEPT !.modified = TRUE]

\* Store(name, v), by the caller or by the visitor of a Range in progress
CallStore(name, v, newcap) ==
    /\ pc \in {"map", "visitor"}
    /\ lastOp.n < MaxOps
    /\ newcap > cont.len
    /\ Reallocates(cont, name) \/ newcap = cont.len + 1
    /\ cont' = sliceStore(cont, name, v, newcap)
    /\ rng' = RangeAfter(rng, Reallocates(cont, name))
    /\ lastOp' = [n |-> lastOp.n + 1, op |-> "Store", name |-> name, value |-> v]
    /\ stamp' = IF index(Live(cont), name) = -1
                THEN [stamp EXCEPT ![name] = lastOp.n + 1]
                ELSE stamp
    /\ UNCHANGED pc
    /\ UNCHANGED parserVars

\* Delete(name), by the caller or by the visitor of a Range in progress
CallDelete(name) ==
    /\ pc \in {"map", "visitor"}
    /\ lastOp.n < MaxOps
    /\ cont' = sliceDelete(cont, name)
    /\ rng' = RangeAfter(rng, FALSE)
    /\ lastOp' = [n |-> lastOp.n + 1, op |-> "Delete", name |-> name,
                  value |-> ZeroEntry(cont.kind).value]
    /\ stamp' = [stamp EXCEPT ![name] = 0]
    /\ UNCHANGED pc
    /\ UNCHANGED parserVars

\* Range(f) is called
CallRange ==
    /\ pc = "map"
    /\ pc' = "range"
    /\ rng' = RangeBegin(cont)
    /\ UNCHANGED <<cont, lastOp, stamp>>
    /\ UNCHANGED parserVars

\* one turn of Range's loop: the next item is read and handed to the
\* visitor, or the loop is over and Range returns
RangeStep ==
    /\ pc = "range"
    /\ IF rng.i < rng.n
       THEN /\ rng' = [rng EXCEPT !.visited = Append(@, RangeItem(cont, rng))]
            /\ pc' = "visitor"
       ELSE /\ rng' = RangeEnd(rng, FALSE)
            /\ pc' = "map"
    /\ UNCHANGED <<cont, lastOp, stamp>>
    /\ UNCHANGED parserVars

\* the visitor returns ret
VisitorReturn(ret) ==
    /\ pc = "visitor"
    /\ IF rangeContinues(ret)
       THEN /\ rng' = [rng EXCEPT !.i = @ + 1, !.ret = ret]
            /\ pc' = "range"
       ELSE /\ rng' = [RangeEnd(rng, TRUE) EXCEPT !.ret = ret]
            /\ pc' = "map"
    /\ UNCHANGED <<cont, lastOp, stamp>>
    /\ UNCHANGED parserVars

\* a caller that builds, edits and ranges over one Parameters or Dictionary
MapNext ==
    \/ \E kind \in {"Parameters", "Dictionary"} : CallNew(kind)
    \/ \E name \in MapKeys, v \in ValuesOf(cont.kind), newcap \in 1..MaxCap :
           CallStore(name, v, newcap)
    \/ \E name \in MapKeys : CallDelete(name)
    \/ CallRange
    \/ RangeStep
    \/ \E ret \in BOOLEAN : VisitorReturn(ret)

MapSpec == Init /\ [][MapNext]_vars

\* a caller that parses a text or builds a value, and serializes it
Next ==
    \/ pc = "idle" /\ \E s \in Inputs : NewParser(s)
    \/ ParseDictionary
    \/ ParseList
    \/ ParseItem
    \/ DictLoop
    \/ ListLoop
    \/ ParseMember
    \/ InnerLoop
    \/ ParseItemBare
    \/ ParseParameters
    \/ ParseItemReturn
    \/ ParseInnerListReturn
    \/ ParseMemberReturn
    \/ End
    \/ pc = "idle" /\ \E v \in BuiltValues : Build(v)
    \/ CallSerialize
    \/ Reparse
    \/ ReparseBuilt

Spec == Init /\ [][Next]_vars

\* the steps of the parser itself, between a call of ParseDictionary,
\* ParseList or ParseItem and its return
ParserStep ==
    \/ DictLoop
    \/ ListLoop
    \/ ParseMember
    \/ InnerLoop
    \/ ParseItemBare
    \/ ParseParameters
    \/ ParseItemReturn
    \/ ParseInnerListReturn
    \/ ParseMemberReturn
    \/ End

\* the parser is between its call and its return
ParserRunning ==
    pc \in {"dictLoop", "listLoop", "member", "innerLoop", "item", "params",
            "itemRet", "innerRet", "memberRet", "end"}

\* the same caller, with a parser that goes on running once it is called:
\* weak fairness of ParserStep, which is enabled exactly when ParserRunning
LiveSpec ==
    Init /\ [][Next]_vars /\ ([]<>~ParserRunning \/ []<><<ParserStep>>_vars)

-----------------------------------------------------------------------------
(* What a value contains *)

Range(f) == {f[i] : i \in DOMAIN f}

Names(its) == {its[i].name : i \in DOMAIN its}

MembersOf(v) ==
    IF v.kind = "List" THEN Range(v.list)
    ELSE IF v.kind = "Dictionary" THEN {v.dict[i].value : i \in DOMAIN v.dict}
    ELSE {}

ItemsOfMember(m) ==
    IF m.type = MemberTypeItem THEN {m.item} ELSE Range(m.innerList.items)

AllItems(v) ==
    IF v.kind = "Item" THEN {v.item}
    ELSE UNION {ItemsOfMember(m) : m \in MembersOf(v)}

\* every parameter list of the value: those of its items and of its inner lists
AllParams(v) ==
    {it.params : it \in AllItems(v)}
    \cup {m.innerList.params : m \in {x \in MembersOf(v) : x.type = MemberTypeInnerList}}

AllScalars(v) ==
    ({it.bareItem : it \in AllItems(v)}
     \cup UNION {{ps[i].value : i \in DOMAIN ps} : ps \in AllParams(v)})
    \ {NilBareItem}

IntsOf(v) == {b.n : b \in {x \in AllScalars(v) : x.type = ItemTypeInt}}

\* every dictionary key and every parameter key of the value
AllKeys(v) ==
    (IF v.kind = "Dictionary" THEN Names(v.dict) ELSE {})
    \cup UNION {Names(ps) : ps \in AllParams(v)}

\* the key character class: [a-z][a-z0-9_-*]*, 1 to 255 bytes
IsKey(k) ==
    /\ Len(k) >= 1
    /\ Len(k) <= 255
    /\ IsLower(k[1])
    /\ \A i \in 2..Len(k) : IsKeyRest(k[i])

NoRepeatedName(its) ==
    \A i, j \in DOMAIN its : its[i].name = its[j].name => i = j

\* a parse has returned to its caller (first parse of a text)
Parsed == pc = "done" /\ round = 1

ParsedOK == Parsed /\ err.nil

ParseFailed == pc' = "done" /\ ~err'.nil /\ value' = Nil

-----------------------------------------------------------------------------
(* C1 *)

\* C1: when ParseItem, ParseList or ParseDictionary returns without error (or
\* returns a value at all), the whole input has been consumed: bytes left
\* after the production and the trailing spaces/tabs make the call fail.
C1_TrailingBytesAreAnError ==
    pc = "done" /\ (err.nil \/ value # Nil) => pos = Len(input)

\* a call that failed because a byte was left after the production
C1_Witness ==
    /\ pc = "done"
    /\ ~err.nil
    /\ err.msg = "Expected end of the string, but found more data instead"
    /\ value = Nil
    /\ pos < Len(input)

-----------------------------------------------------------------------------
(* C2 *)

TextBareKey == B(<<"a", ",", " ", "b", "=", "?", "0">>)

TextTwoBooleans == B(<<"a", "=", "?", "1", ",", " ", "b", "=", "?", "0">>)

BoolMember(b) == ItemMember(NewItem(BareBool(b), <<>>))

\* a -> Item(Boolean(true), no parameters), b -> Item(Boolean(false), no
\* parameters), in this order
TrueThenFalse ==
    DictionaryValue(<<[name |-> KeyA, value |-> BoolMember(TRUE)],
                      [name |-> KeyB, value |-> BoolMember(FALSE)]>>)

\* parseDictionary is at a key that is not followed by `=`
KeyWithoutEquals ==
    /\ pc = "dictLoop"
    /\ ~eol(input, pos)
    /\ LET k == parseKey(input, pos)
       IN  k.err.nil /\ (eol(input, k.pos) \/ input[k.pos + 1] # EQUALS)

\* C2 as claimed: ParseDictionary of `a, b=?0` succeeds and yields
\* a -> Boolean(true), b -> Boolean(false).
C2_BareKeyIsTrue ==
    Parsed /\ entry = "Dictionary" /\ input = TextBareKey
        => err.nil /\ value = TrueThenFalse

\* C2 as amended: in ParseDictionary a key that is not followed by `=` makes
\* the call return an error and no value, so `a, b=?0` is rejected; written
\* out as `a=?1, b=?0` the text yields a -> Boolean(true), b -> Boolean(false),
\* in this order, without parameters.
C2_BareKeyIsRejected ==
    /\ [][KeyWithoutEquals => ParseFailed]_vars
    /\ [](Parsed /\ entry = "Dictionary" /\ input = TextBareKey
              => ~err.nil /\ value = Nil)
    /\ [](Parsed /\ entry = "Dictionary" /\ input = TextTwoBooleans
              => err.nil /\ value = TrueThenFalse)

\* ParseDictionary has returned from `a, b=?0`
C2_Witness ==
    Parsed /\ entry = "Dictionary" /\ input = TextBareKey /\ ~err.nil

-----------------------------------------------------------------------------
(* C3 *)

\* parseParameters is at a `;key` whose key is already in the list it builds
NextParamRepeats ==
    /\ pc = "params"
    /\ ~eol(input, pos)
    /\ input[pos + 1] = SEMICOLON
    /\ LET k == parseKey(input, skipOWS(input, pos + 1))
       IN  k.err.nil /\ k.val \in Names(params)

\* parseDictionary is at a key that is already in the dictionary it builds
NextDictKeyRepeats ==
    /\ pc = "dictLoop"
    /\ ~eol(input, pos)
    /\ parseKey(input, pos).val \in Names(output)

TextSameKeyTwoItems == B(<<"x", ";", "a", ",", " ", "y", ";", "a">>)

TextSameKeyInnerList ==
    B(<<"(", "x", ";", "a", " ", "y", ";", "a", ")", ";", "a">>)

\* C3: a key that repeats a key of the same dictionary, or of the same
\* parameter list (of an Item or of an InnerList), makes the parse call return
\* an error and no value; no returned container holds a key twice; the same
\* key in two different parameter lists is accepted.
C3_RepeatedKeyIsAnError ==
    /\ [][NextParamRepeats \/ NextDictKeyRepeats => ParseFailed]_vars
    /\ [](ParsedOK => /\ NoRepeatedName(value.dict)
                      /\ \A ps \in AllParams(value) : NoRepeatedName(ps))
    /\ [](Parsed /\ entry = "List"
              /\ input \in {TextSameKeyTwoItems, TextSameKeyInnerList}
              => /\ err.nil
                 /\ Cardinality(AllParams(value)) >= 1
                 /\ \A ps \in AllParams(value) : Names(ps) = {KeyA})

\* a parse that has stored a member, then failed on a repeated dictionary key
C3_Witness ==
    /\ Parsed
    /\ err.msg = "Duplicate key in dictionary"
    /\ value = Nil
    /\ Len(output) >= 1
    /\ KeyA \in Names(output)

-----------------------------------------------------------------------------
(* C4 *)

\* C4: every dictionary key and every parameter key of a value returned by a
\* successful parse matches the key character class.
C4_ParsedKeysMatchKeyClass ==
    pc = "done" /\ err.nil => \A k \in AllKeys(value) : IsKey(k)

-----------------------------------------------------------------------------
(* C5 *)

\* a text without quotes that has a `(` with no `)` after it
UnclosedParen(in) ==
    /\ \A i \in DOMAIN in : in[i] # DQUOTE
    /\ \E i \in DOMAIN in : in[i] = LPAREN /\ \A j \in (i + 1)..Len(in) : in[j] # RPAREN

\* C5: ParseList and ParseDictionary return an error for every input whose
\* `(` is not closed by a `)` before the end of input.
C5_UnclosedInnerListIsAnError ==
    Parsed /\ entry \in {"List", "Dictionary"} /\ UnclosedParen(input) => ~err.nil

-----------------------------------------------------------------------------
(* C6 *)

ItemA == NewItem(BareToken(KeyA), <<>>)
ItemB == NewItem(BareToken(KeyB), <<>>)

\* the List of the one inner list (a b)
ListOfAB == ListValue(<<InnerListMember(NewInnerList(<<ItemA, ItemB>>, <<>>))>>)

TextTabAfterItem == B(<<"(", "a", "\t", "b", ")">>)

\* inner lists with more than one space between Items, a tab between Items,
\* or whitespace after the `(`
TextsLooseInnerList ==
    { B(<<"(", "a", " ", " ", "b", ")">>),
      B(<<"(", "a", " ", "\t", "b", ")">>),
      B(<<"(", " ", "a", " ", "b", " ", ")">>) }

\* parseInnerList has appended an Item that is not followed by a space or `)`
ItemNotFollowedBySpaceOrParen ==
    /\ pc = "itemRet"
    /\ itemCtx = "inner"
    /\ (eol(input, pos) \/ input[pos + 1] \notin {SP, RPAREN})

\* C6 as claimed: an inner list with two or more spaces, or a tab, between
\* two Items, or with whitespace between `(` and the first Item, is rejected.
C6_ExactlyOneSpace ==
    Parsed /\ entry = "List" /\ input \in TextsLooseInnerList \cup {TextTabAfterItem}
        => ~err.nil

\* C6 as amended: inside an inner list each Item must be directly followed by
\* one ASCII space or by `)`; an Item directly followed by a tab, by another
\* byte or by the end of input is rejected.  The spaces and tabs that follow
\* that space, and those between `(` and the first Item, are skipped: such
\* inner lists are accepted and equal the one written with single spaces.
C6_SpaceOrParenAfterItem ==
    /\ [][ItemNotFollowedBySpaceOrParen => ParseFailed]_vars
    /\ [][pc = "innerLoop" /\ pc' # "done" => pos' >= skipOWS(input, pos)]_vars
    /\ [](Parsed /\ entry = "List" /\ input = TextTabAfterItem
              => ~err.nil /\ value = Nil)
    /\ [](Parsed /\ entry = "List" /\ input \in TextsLooseInnerList
              => err.nil /\ value = ListOfAB)

\* ParseList has accepted an inner list with whitespace after `(` and before `)`
C6_Witness ==
    /\ Parsed
    /\ entry = "List"
    /\ input = B(<<"(", " ", "a", " ", "b", " ", ")">>)
    /\ err.nil
    /\ value = ListOfAB

-----------------------------------------------------------------------------
(* C7 *)

\* C7: for every input that parses, Serialize of the value succeeds, its
\* output parses with the same entry point, and serializing that value gives
\* the same output again.
C7_ParseSerializeIdempotent ==
    /\ (pc = "serialized" /\ entry # "none" => out.err.nil)
    /\ (pc = "done" /\ round = 2 => err.nil)
    /\ (pc = "serialized" /\ round = 2 => out.err.nil /\ out.b = firstOut)

-----------------------------------------------------------------------------
(* C8 *)

\* C8: whenever a parse call returns an error, the value it returns is nil.
C8_ErrorReturnsNil ==
    pc = "done" /\ ~err.nil => value = Nil

\* a ParseList or ParseDictionary that failed after it had stored members
C8_Witness ==
    /\ pc = "done"
    /\ ~err.nil
    /\ entry \in {"List", "Dictionary"}
    /\ Len(output) >= 2
    /\ value = Nil

-----------------------------------------------------------------------------
(* C9 *)

\* an optional `-` and one or more digits, and nothing else
IsIntLiteral(in) ==
    /\ Len(in) >= 1
    /\ LET ds == IF in[1] = MINUS THEN Tail(in) ELSE in
       IN  Len(ds) >= 1 /\ \A i \in DOMAIN ds : IsDigit(ds[i])

\* the digit-count bound of an Integer's text
WithinDigitBound(in) ==
    IF in[1] = MINUS THEN Len(in) <= 16 ELSE Len(in) <= 15

\* C9: an integer literal is accepted iff it has at most 15 digits when
\* non-negative and at most 16 characters when negative, and is then an
\* Integer; 999999999999999 and -999999999999999 parse and serialize back
\* unchanged, 1000000000000000 fails to parse.
C9_IntegerDigitBound ==
    /\ (Parsed /\ entry \in {"Item", "List"} /\ IsIntLiteral(input)
            => /\ err.nil <=> WithinDigitBound(input)
               /\ err.nil => \A it \in AllItems(value) :
                                 it.bareItem.type = ItemTypeInt)
    /\ (pc = "serialized" /\ round = 1 /\ entry \in {"Item", "List"}
            /\ input \in {NineDigits15, <<MINUS>> \o NineDigits15}
            => out.err.nil /\ out.b = input)
    /\ (Parsed /\ input = <<DIGIT1>> \o Rep(DIGIT0, 15) => ~err.nil /\ value = Nil)

\* -999999999999999, 16 characters, has been parsed and serialized
C9_Witness ==
    /\ pc = "serialized"
    /\ round = 1
    /\ entry = "Item"
    /\ input = <<MINUS>> \o NineDigits15
    /\ out.b = input

-----------------------------------------------------------------------------
(* C10 *)

\* the value lies in [-999999999999999, 999999999999999]
InSFRange(n) == Len(n.ip) <= 15

\* C10: Serialize fails whenever an Integer outside the range stands anywhere
\* in the value, and returns no text then; for a value that is otherwise
\* valid Serialize succeeds iff every Integer in it lies in the range.
C10_IntegerRange ==
    pc = "serialized" =>
        /\ (\E n \in IntsOf(value) : ~InSFRange(n)) => ~out.err.nil /\ out.b = <<>>
        /\ value \in BuiltIntValues
               => (out.err.nil <=> \A n \in IntsOf(value) : InSFRange(n))

\* Serialize has failed on a List whose inner list carries -1000000000000000
C10_Witness ==
    /\ pc = "serialized"
    /\ ~out.err.nil
    /\ value.kind = "List"
    /\ \E n \in IntsOf(value) : n.neg /\ Len(n.ip) = 16
    /\ \E m \in MembersOf(value) : m.type = MemberTypeInnerList

-----------------------------------------------------------------------------
(* Decimals *)

\* the value is one Item that holds a Decimal and has no parameters
IsFloatItem(v) ==
    v.kind = "Item" /\ v.item.bareItem.type = ItemTypeFloat /\ v.item.params = <<>>

\* the text has a `.` that is followed by digits only, and by at least one
HasFractionDigit(b) ==
    \E i \in DOMAIN b :
        /\ b[i] = DOT
        /\ i < Len(b)
        /\ \A j \in (i + 1)..Len(b) : IsDigit(b[j])

\* C11: every Decimal that Serialize accepts is rendered with a `.` followed
\* by at least one fraction digit.
C11_DecimalHasFractionDigit ==
    (pc = "serialized" /\ IsFloatItem(value) /\ out.err.nil)
        => HasFractionDigit(out.b)

\* C12: Serialize of a Decimal succeeds iff its integer part has at most 14
\* digits, the sign not counted; otherwise it returns an error and no text.
C12_DecimalIntegerPartBound ==
    (pc = "serialized" /\ IsFloatItem(value)) =>
        /\ out.err.nil <=> Len(value.item.bareItem.n.ip) <= 14
        /\ ~out.err.nil => out.b = <<>>

\* a negative Decimal with a 14-digit integer part has been serialized
C12_Witness ==
    /\ pc = "serialized"
    /\ IsFloatItem(value)
    /\ value.item.bareItem.n.neg
    /\ Len(value.item.bareItem.n.ip) = 14
    /\ out.err.nil

-----------------------------------------------------------------------------
(* Parameters without a value *)

TrueForNilParams(ps) ==
    [i \in DOMAIN ps |->
        [ps[i] EXCEPT !.value = IF @ = NilBareItem THEN BareBool(TRUE) ELSE @]]

TrueForNilItem(it) == [it EXCEPT !.params = TrueForNilParams(@)]

TrueForNilMember(m) ==
    IF m.type = MemberTypeItem THEN [m EXCEPT !.item = TrueForNilItem(@)]
    ELSE [m EXCEPT !.innerList =
              [items |-> [i \in DOMAIN @.items |-> TrueForNilItem(@.items[i])],
               params |-> TrueForNilParams(@.params)]]

\* the value with Boolean(true) stored wherever a parameter has no value
TrueForNil(v) ==
    IF v.kind = "Item" THEN [v EXCEPT !.item = TrueForNilItem(@)]
    ELSE IF v.kind = "List"
    THEN [v EXCEPT !.list = [i \in DOMAIN @ |-> TrueForNilMember(@[i])]]
    ELSE IF v.kind = "Dictionary"
    THEN [v EXCEPT !.dict =
              [i \in DOMAIN @ |-> [@[i] EXCEPT !.value = TrueForNilMember(@)]]]
    ELSE v

HasNilParam(v) ==
    \E ps \in AllParams(v) : \E i \in DOMAIN ps : ps[i].value = NilBareItem

\* a value with a parameter without a value has been serialized
SerializedNilParam == pc = "serialized" /\ out.err.nil /\ HasNilParam(value)

\* the Item a;a, its parameter without a value
ItemWithNilParam ==
    ItemValue(NewItem(BareToken(KeyA), Store(<<>>, KeyA, NilBareItem)))

\* C13 as stated: a parameter without a value and the same parameter with
\* the value Boolean(true) serialize to the same text.
C13_NilAndTrueRenderAlike ==
    SerializedNilParam => Serialize(TrueForNil(value)).b = out.b

\* C13: a parameter without a value is written as `;key` alone and one with
\* the value Boolean(true) as `;key=?1`, so the two texts differ.
C13_NilAndTrueRenderApart ==
    SerializedNilParam =>
        /\ Serialize(TrueForNil(value)).err.nil
        /\ Serialize(TrueForNil(value)).b # out.b
        /\ Len(Serialize(TrueForNil(value)).b) >= Len(out.b) + 3
        /\ value = ItemWithNilParam =>
               /\ out.b = <<LOWER_A, SEMICOLON, LOWER_A>>
               /\ Serialize(TrueForNil(value)).b =
                      <<LOWER_A, SEMICOLON, LOWER_A, EQUALS, QUESTION, DIGIT1>>

\* the Item a;a built with the constructors has been serialized
C13_Witness ==
    /\ pc = "serialized"
    /\ entry = "none"
    /\ out.err.nil
    /\ value = ItemWithNilParam

\* parseParameters has stored one more parameter in this step
ParamStored == pc = "params" /\ pc' = "params" /\ Len(params') = Len(params) + 1

\* where the key of the parameter parsed in this step ends
ParamKeyEnd == parseKey(input, skipOWS(input, pos + 1)).pos

\* the bytes of `text` stand in the input from offset p on
TextAt(p, text) ==
    /\ p + Len(text) <= Len(input)
    /\ \A i \in DOMAIN text : input[p + i] = text[i]

\* C14: a parameter parsed from a key with no `=` is stored as present with
\* a nil value: Load returns (nil, true) for it, where it returned
\* (nil, false) before, and a key followed by `=?1` gets the non-nil value
\* Boolean(true).
C14_BareParamKeyStoresNil ==
    [][ParamStored =>
          LET k == params'[Len(params')].name
          IN  /\ Load(params, k) = [value |-> NilBareItem, ok |-> FALSE]
              /\ Load(params', k).ok
              /\ ~TextAt(ParamKeyEnd, <<EQUALS>>)
                     => Load(params', k) = [value |-> NilBareItem, ok |-> TRUE]
              /\ TextAt(ParamKeyEnd, <<EQUALS>>)
                     => Load(params', k).value # NilBareItem
              /\ TextAt(ParamKeyEnd, <<EQUALS, QUESTION, DIGIT1>>)
                     => Load(params', k) = [value |-> BareBool(TRUE), ok |-> TRUE]
      ]_vars

\* parseParameters holds the parameter a without a value, after `;a` at the
\* end of the input
C14_Witness ==
    /\ pc = "params"
    /\ round = 1
    /\ pos = Len(input)
    /\ Len(params) = 1
    /\ Load(params, KeyA) = [value |-> NilBareItem, ok |-> TRUE]
    /\ Load(params, KeyB) = [value |-> NilBareItem, ok |-> FALSE]

-----------------------------------------------------------------------------
(* Parameters and Dictionary as ordered maps *)

\* this step is a Store call, this step is a Delete call
StoreStep == lastOp'.n = lastOp.n + 1 /\ lastOp'.op = "Store"

DeleteStep == lastOp'.n = lastOp.n + 1 /\ lastOp'.op = "Delete"

\* the entries without the one of that name, in the same order
WithoutName(its, name) ==
    LET Keep(e) == e.name # name
    IN  SelectSeq(its, Keep)

\* Load on the container: the found flag
Found(c, name) ==
    IF c.kind = "Dictionary" THEN LoadMember(Live(c), name).ok
    ELSE Load(Live(c), name).ok

\* C15: no two entries ever have the same key; Store on a key that is
\* present replaces its value where it stands and leaves every other entry
\* and Len as they were, Store on a key that is not present appends one
\* entry at the end.
C15_StoreKeepsKeysUnique ==
    [][/\ NoRepeatedName(Live(cont'))
       /\ StoreStep =>
              LET k == lastOp'.name
                  v == lastOp'.value
                  L == Live(cont)
                  L2 == Live(cont')
              IN  IF k \in Names(L)
                  THEN /\ ContLen(cont') = ContLen(cont)
                       /\ \A i \in DOMAIN L :
                              /\ L2[i].name = L[i].name
                              /\ L2[i].value =
                                     IF L[i].name = k THEN v ELSE L[i].value
                  ELSE L2 = Append(L, [name |-> k, value |-> v])
      ]_vars

\* the last call was a Store on the key that already stood first of two
C15_Witness ==
    /\ pc = "map"
    /\ lastOp.op = "Store"
    /\ cont.len = 2
    /\ Live(cont)[1].name = lastOp.name
    /\ Live(cont)[1].value = lastOp.value
    /\ stamp[lastOp.name] > 0
    /\ stamp[lastOp.name] < stamp[Live(cont)[2].name]
    /\ stamp[Live(cont)[2].name] < lastOp.n

\* C16: Delete removes exactly the entry with that key, keeps the order
\* and the values of the others, decreases Len by one and makes Load report
\* not-found; on an absent key it leaves the container as it was.
C16_DeleteRemovesOneEntry ==
    [][DeleteStep =>
          LET k == lastOp'.name
              L == Live(cont)
              L2 == Live(cont')
          IN  /\ ~Found(cont', k)
              /\ IF k \in Names(L)
                 THEN /\ L2 = WithoutName(L, k)
                      /\ ContLen(cont') = ContLen(cont) - 1
                 ELSE cont' = cont
      ]_vars

\* b has been deleted from between a and c
C16_Witness ==
    /\ pc = "map"
    /\ lastOp.op = "Delete"
    /\ lastOp.name = KeyB
    /\ cont.len = 2
    /\ Live(cont)[1].name = KeyA
    /\ Live(cont)[2].name = KeyC
    /\ Cap(cont) >= 3
    /\ cont.arr[3] = ZeroEntry(cont.kind)
    /\ ~Found(cont, KeyB)

\* the entries stand in the order in which their keys were added
InInsertionOrder(its) ==
    \A i, j \in DOMAIN its : i < j => stamp[its[i].name] < stamp[its[j].name]

\* C17: a Range call during which the container is not modified visits the
\* entries in insertion order, each once, and visits nothing after the
\* visitor has returned false.
C17_RangeVisitsInInsertionOrder ==
    /\ ~rng.ret => pc = "map" /\ rng.stopped /\ Len(rng.visited) = rng.i + 1
    /\ (rng.started /\ ~rng.modified) =>
           /\ InInsertionOrder(Live(cont))
           /\ rng.visited = SubSeq(Live(cont), 1, Len(rng.visited))
           /\ Len(rng.visited) =
                  IF pc = "visitor" \/ rng.stopped THEN rng.i + 1 ELSE rng.i
           /\ (pc = "map" /\ ~rng.stopped) => rng.visited = Live(cont)

\* a Range over three entries was stopped by its visitor at the second
C17_Witness ==
    /\ pc = "map"
    /\ rng.started
    /\ ~rng.modified
    /\ rng.stopped
    /\ cont.len = 3
    /\ Len(rng.visited) = 2
    /\ rng.visited = SubSeq(Live(cont), 1, 2)

\* C18: during one Range call no name is visited more than once, also when
\* the visitor calls Store or Delete on the container.
C18_NoNameVisitedTwice ==
    rng.started => NoRepeatedName(rng.visited)

-----------------------------------------------------------------------------
(* Empty lists and trailing commas *)

\* the text consists of spaces and tabs only, or is empty
OnlyOWS(in) == \A i \in DOMAIN in : IsOWS(in[i])

\* C19: ParseList of the empty string, or of spaces and tabs only, succeeds
\* and returns a List without members.
C19_EmptyInputIsEmptyList ==
    (Parsed /\ entry = "List" /\ OnlyOWS(input))
        => err.nil /\ value = ListValue(<<>>)

\* ParseList has returned for a text of at least two spaces or tabs
C19_Witness ==
    /\ Parsed
    /\ entry = "List"
    /\ Len(input) >= 2
    /\ OnlyOWS(input)
    /\ \E i \in DOMAIN input : input[i] = HTAB
    /\ value = ListValue(<<>>)

\* the text ends with a comma, or with a comma and then spaces and tabs
EndsWithComma(in) ==
    \E i \in DOMAIN in :
        in[i] = COMMA /\ \A j \in (i + 1)..Len(in) : IsOWS(in[j])

\* C20: ParseList and ParseDictionary return an error, and no value, for a
\* text whose last member separator is followed by spaces and tabs only or
\* by the end of the input.
C20_TrailingCommaIsAnError ==
    (Parsed /\ entry \in {"List", "Dictionary"} /\ EndsWithComma(input))
        => ~err.nil /\ value = Nil

\* ParseDictionary has rejected a text for the comma after its one member
C20_Witness ==
    /\ Parsed
    /\ entry = "Dictionary"
    /\ EndsWithComma(input)
    /\ Len(output) = 1
    /\ err.msg = "Unexpected end of string"
    /\ value = Nil

-----------------------------------------------------------------------------
(* Byte sequences with and without padding *)

TextHelloPadded == B(<<"*", "a", "G", "V", "s", "b", "G", "8", "=", "*">>)

TextHelloUnpadded == B(<<"*", "a", "G", "V", "s", "b", "G", "8", "*">>)

Hello == B(<<"h", "e", "l", "l", "o">>)

\* ParseItem has returned a byte sequence for a text that starts with `*`
ParsedByteSeq ==
    /\ round = 1
    /\ pc \in {"done", "serialized"}
    /\ entry = "Item"
    /\ err.nil
    /\ input # <<>>
    /\ input[1] = STAR

\* the base64 content between the two `*` of the text
ContentOf(in) == SubSeq(in, 2, 1 + RunLen(in, 1, ByteSeqClass))

\* the content without the `=` at its end
RECURSIVE WithoutPadding(_)
WithoutPadding(c) ==
    IF c # <<>> /\ c[Len(c)] = EQUALS
    THEN WithoutPadding(SubSeq(c, 1, Len(c) - 1))
    ELSE c

\* the bytes parseByteSeq yields for `*c*`; <<-1>> stands for an error
BytesOf(c) ==
    LET Parsed1(r) == IF r.err.nil THEN r.val ELSE <<-1>>
    IN  Parsed1(parseByteSeq(<<STAR>> \o c \o <<STAR>>, 0))

\* C21: a byte sequence parses to the same bytes with its padding and
\* without it (`*aGVsbG8=*` and `*aGVsbG8*` both yield `hello`), and
\* Serialize of those bytes emits the padded form: a content whose length
\* is a multiple of 4, which StdEncoding alone decodes to the same bytes.
C21_PaddingIsOptional ==
    /\ ParsedByteSeq =>
          LET bytes == value.item.bareItem.s
              c == ContentOf(input)
          IN  /\ value.item.bareItem.type = ItemTypeByteSeq
              /\ BytesOf(WithoutPadding(c)) = bytes
              /\ BytesOf(B64Encode(bytes)) = bytes
              /\ input \in {TextHelloPadded, TextHelloUnpadded} => bytes = Hello
    /\ (ParsedByteSeq /\ pc = "serialized") =>
          LET bytes == value.item.bareItem.s
              text == out.b
              enc == SubSeq(text, 2, Len(text) - 1)
          IN  /\ out.err.nil
              /\ Len(text) >= 2
              /\ text[1] = STAR
              /\ text[Len(text)] = STAR
              /\ Len(enc) % 4 = 0
              /\ decodeBase64(enc, TRUE, 0) = R(bytes, nilErr, 0)
              /\ input \in {TextHelloPadded, TextHelloUnpadded}
                     => text = TextHelloPadded

\* the unpadded text of `hello` was parsed and its bytes serialized
C21_Witness ==
    /\ ParsedByteSeq
    /\ pc = "serialized"
    /\ input = TextHelloUnpadded
    /\ value.item.bareItem.s = Hello
    /\ out.b = TextHelloPadded

-----------------------------------------------------------------------------
(* The text of a List and of a Dictionary *)

\* the texts of `pieces`, each two consecutive ones with `sep` between them
RECURSIVE Joined(_, _)
Joined(pieces, sep) ==
    IF pieces = <<>> THEN <<>>
    ELSE IF Len(pieces) = 1 THEN pieces[1]
    ELSE pieces[1] \o sep \o Joined(Tail(pieces), sep)

\* the text of one member, serialized by itself
MemberText(m) == appendMember(<<>>, m).b

\* the texts of the members of a List, in order
ListPieces(list) == [i \in 1..Len(list) |-> MemberText(list[i])]

\* the `key=member` texts of a Dictionary, in iteration order
DictPieces(dict) ==
    [i \in 1..Len(dict) |-> dict[i].name \o <<EQUALS>> \o MemberText(dict[i].value)]

\* Serialize has returned a text for the value
SerializedOK == pc = "serialized" /\ out.err.nil

\* C22: Serialize renders a Dictionary as its `key=member` pairs in
\* iteration order and a List as its members in order, with exactly `, `
\* between consecutive entries and no separator before the first or after
\* the last; an empty List and an empty Dictionary give the empty string,
\* and an empty Parameters adds no text to its Item or inner list.
C22_MembersJoinedByCommaSpace ==
    SerializedOK =>
        /\ value.kind = "List" => out.b = Joined(ListPieces(value.list), <<COMMA, SP>>)
        /\ value.kind = "Dictionary"
               => out.b = Joined(DictPieces(value.dict), <<COMMA, SP>>)
        /\ (value.kind = "List" /\ value.list = <<>>) => out.b = <<>>
        /\ (value.kind = "Dictionary" /\ value.dict = <<>>) => out.b = <<>>
        /\ \A it \in AllItems(value) :
               it.params = <<>>
                   => appendItem(<<>>, it).b = appendBareItem(<<>>, it.bareItem).b
        /\ \A m \in MembersOf(value) :
               (m.type = MemberTypeInnerList /\ m.innerList.params = <<>>)
                   => MemberText(m)[Len(MemberText(m))] = RPAREN
        /\ (value.kind = "Item" /\ value.item.params = <<>>)
               => out.b = appendBareItem(<<>>, value.item.bareItem).b

\* a List of three members and a Dictionary of three members were serialized
SerializedListOfThree ==
    /\ SerializedOK
    /\ value.kind = "List"
    /\ Len(value.list) = 3
    /\ \E m \in MembersOf(value) : m.type = MemberTypeInnerList
    /\ out.b = B(<<"a", ",", " ", "(", "a", " ", "1", ")", ";", "a", ",", " ", "?", "1">>)

C22_Witness ==
    /\ SerializedOK
    /\ value.kind = "Dictionary"
    /\ Len(value.dict) = 3
    /\ out.b = B(<<"a", "=", "1", ",", " ", "b", "=", "(", "a", ")", ",", " ", "c", "=", "?", "0">>)

-----------------------------------------------------------------------------
(* Keys and Tokens handed to Serialize *)

\* the token character class: [a-zA-Z][a-zA-Z0-9_\-.:%*/]*
IsToken(t) ==
    /\ Len(t) >= 1
    /\ IsAlpha(t[1])
    /\ \A i \in 2..Len(t) : IsTokenRest(t[i])

TokensOf(v) == {b.s : b \in {x \in AllScalars(v) : x.type = ItemTypeToken}}

\* the value holds a key or a Token that is not one over its whole length
HasBadIdentifier(v) ==
    \/ \E k \in AllKeys(v) : ~IsKey(k)
    \/ \E t \in TokensOf(v) : ~IsToken(t)

\* C23: Serialize returns an error, and the empty string, whenever a
\* dictionary key, a parameter key or a Token of the value does not match
\* its character class over its entire length (the empty identifier, a valid
\* prefix followed by another byte, a key of more than 255 bytes).
C23_BadIdentifierIsAnError ==
    (pc = "serialized" /\ HasBadIdentifier(value))
        => ~out.err.nil /\ out.b = <<>>

\* Serialize has refused a Dictionary whose second key has 256 bytes
C23_Witness ==
    /\ pc = "serialized"
    /\ value.kind = "Dictionary"
    /\ Len(value.dict) = 2
    /\ IsKey(value.dict[1].name)
    /\ Len(value.dict[2].name) = KeyMaxTail + 2
    /\ ~out.err.nil
    /\ out.b = <<>>

-----------------------------------------------------------------------------
(* Strings: the serialized text and the round trip *)

\* every byte of the payload is in 0x20..0x7E
IsPrintable(str) == \A i \in DOMAIN str : SP <= str[i] /\ str[i] <= TILDE

\* the payload with a backslash before each `\` and each `"`
RECURSIVE Escaped(_)
Escaped(str) ==
    IF str = <<>> THEN <<>>
    ELSE (IF Head(str) \in {BACKSLASH, DQUOTE} THEN <<BACKSLASH, Head(str)>>
          ELSE <<Head(str)>>) \o Escaped(Tail(str))

\* the value the caller built is an Item that is a String without parameters
IsStringItem(v) ==
    /\ v.kind = "Item"
    /\ v.item.bareItem.type = ItemTypeString
    /\ v.item.params = <<>>

\* Serialize has returned for a String the caller built
SerializedString == pc = "serialized" /\ round = 1 /\ entry = "none" /\ IsStringItem(value)

\* ParseItem runs or has run on the text serialized from a built String
ReparsedString == round = 3 /\ entry = "Item" /\ firstOut # <<>> /\ firstOut[1] = DQUOTE

\* C24: for a String payload of bytes 0x20..0x7E only, Serialize gives the
\* payload between two `"` with one `\` before each `\` and each `"`, and
\* ParseItem of that text gives the payload back; for a payload with a byte
\* outside 0x20..0x7E Serialize returns an error.
C24_StringRoundTrip ==
    /\ (SerializedString /\ IsPrintable(value.item.bareItem.s))
           => /\ out.err.nil
              /\ out.b = <<DQUOTE>> \o Escaped(value.item.bareItem.s) \o <<DQUOTE>>
    /\ (SerializedString /\ ~IsPrintable(value.item.bareItem.s))
           => ~out.err.nil /\ out.b = <<>>
    /\ (ReparsedString /\ pc = "end")
           => /\ IsStringItem(value)
              /\ end(input, pos).err.nil
              /\ NewItem(bareItem, params) = value.item
    /\ (ReparsedString /\ pc = "done")
           => /\ err.nil
              /\ IsStringItem(value)
              /\ IsPrintable(value.item.bareItem.s)
              /\ firstOut = <<DQUOTE>> \o Escaped(value.item.bareItem.s) \o <<DQUOTE>>

\* ParseItem has read back the payload `"\` from its serialized text
C24_Witness ==
    /\ ReparsedString
    /\ pc = "end"
    /\ value.item.bareItem.s = <<DQUOTE, BACKSLASH>>
    /\ input = <<DQUOTE, BACKSLASH, DQUOTE, BACKSLASH, BACKSLASH, DQUOTE>>
    /\ bareItem = BareString(<<DQUOTE, BACKSLASH>>)

-----------------------------------------------------------------------------
(* Termination of the parser *)

\* the places of the parser's code, ordered so that every step that leaves
\* the cursor where it is goes to a lower place
Rank ==
    CASE pc \in {"dictLoop", "listLoop"} -> 14
      [] pc = "member" -> 13
      [] pc = "params" /\ paramsCtx = "item" -> 12
      [] pc = "itemRet" -> 11
      [] pc = "innerLoop" -> 10
      [] pc = "item" -> 9
      [] pc = "params" /\ paramsCtx # "item" -> 8
      [] pc = "innerRet" -> 7
      [] pc = "memberRet" -> 6
      [] pc = "end" -> 5
      [] OTHER -> 0

\* the bytes left to read, then the place in the code
Variant == (Len(input) - pos) * 16 + Rank

\* C25: ParseItem, ParseList and ParseDictionary terminate on every input:
\* every step of the parser either moves the cursor forward or goes to a
\* lower place in the code at the same cursor, so that each iteration of a
\* loop advances the cursor by at least one byte or returns, and a parser
\* that has been called returns.
C25_ParserTerminates ==
    /\ [][ParserRunning => (Variant' < Variant /\ pos' >= pos)]_vars
    /\ (ParserRunning ~> pc = "done")

\* ParseDictionary has returned for a text that takes it through the loops
\* of the dictionary, an inner list, the parameters and a string
C25_Witness ==
    /\ Parsed
    /\ err.nil
    /\ entry = "Dictionary"
    /\ Len(input) = 24
    /\ Len(value.dict) = 2
    /\ value.dict[2].value.type = MemberTypeInnerList
    /\ Len(value.dict[2].value.innerList.items) = 2
    /\ Len(value.dict[1].value.item.params) = 1
    /\ value.dict[1].value.item.params[1].value.type = ItemTypeString
    /\ pos = Len(input)

-----------------------------------------------------------------------------
(* Quoted strings.  The opening quote is at index q; the other bytes of the
   text are classified by what stands before them. *)

\* how many backslashes stand immediately before index i, after the quote
BackslashesBefore(in, q, i) ==
    LET other == {j \in (q + 1)..(i - 1) : in[j] # BACKSLASH}
    IN  IF other = {} THEN i - 1 - q ELSE i - 1 - MaxOf(other)

\* the byte at i is the second byte of an escape pair
IsEscaped(in, q, i) == BackslashesBefore(in, q, i) % 2 = 1

\* the byte at i is the closing quote
IsClosing(in, q, i) == in[i] = DQUOTE /\ ~IsEscaped(in, q, i)

\* the byte at i may not stand in a string: after a backslash anything but
\* `"` and `\`, elsewhere a byte below 0x20 or above 0x7E
IsBadByte(in, q, i) ==
    IF IsEscaped(in, q, i) THEN in[i] \notin {DQUOTE, BACKSLASH}
    ELSE in[i] < SP \/ in[i] > TILDE

\* the indices where the string ends, well or badly
StringEvents(in, q) ==
    {i \in (q + 1)..Len(in) : IsClosing(in, q, i) \/ IsBadByte(in, q, i)}

\* the string is well formed: its first event is the closing quote
StringOK(in, q) ==
    /\ StringEvents(in, q) # {}
    /\ IsClosing(in, q, MinOf(StringEvents(in, q)))

\* the bytes at the indices in `at`, in order
RECURSIVE BytesAt(_, _)
BytesAt(in, at) ==
    IF at = {} THEN <<>>
    ELSE <<in[MinOf(at)]>> \o BytesAt(in, at \ {MinOf(at)})

\* the content: the bytes up to the closing quote, the backslash that opens
\* an escape pair left out
StringContent(in, q) ==
    BytesAt(in, {i \in (q + 1)..(MinOf(StringEvents(in, q)) - 1) :
                    IsEscaped(in, q, i) \/ in[i] # BACKSLASH})

\* parseItem is about to parse a bare item that starts with a quote
AtString == pc = "item" /\ pos < Len(input) /\ input[pos + 1] = DQUOTE

\* C26: parsing a quoted string fails when the input ends before the closing
\* quote, when a backslash is followed by a byte other than `"` and `\`, and
\* when the string holds a byte below 0x20 or above 0x7E; otherwise it
\* yields the content with each escape pair replaced by its second byte and
\* leaves the cursor just after the closing quote.
C26_QuotedString ==
    [][AtString =>
          IF StringOK(input, pos + 1)
          THEN /\ pc' = "params"
               /\ bareItem' = BareString(StringContent(input, pos + 1))
               /\ pos' = MinOf(StringEvents(input, pos + 1))
          ELSE /\ pc' = "done"
               /\ ~err'.nil
               /\ value' = Nil]_vars

\* the bare item of the text "a\"b\\" has been parsed
C26_Witness ==
    /\ pc = "params"
    /\ round = 1
    /\ input = B(<<"dquote", "a", "backslash", "dquote", "b", "backslash", "backslash", "dquote">>)
    /\ bareItem = BareString(B(<<"a", "dquote", "b", "backslash">>))
    /\ pos = Len(input)

-----------------------------------------------------------------------------
(* The form of a number *)

\* the text is made of digits, `-` and `.` only
IsNumericText(t) ==
    /\ t # <<>>
    /\ \A i \in DOMAIN t : IsDigit(t[i]) \/ t[i] \in {MINUS, DOT}

\* optional `-`, one or more digits, optionally `.` and 1 to 6 digits
IsNumberForm(t) ==
    LET body == IF t[1] = MINUS THEN Tail(t) ELSE t
        dots == {i \in DOMAIN body : body[i] = DOT}
    IN  /\ \A i \in DOMAIN body : IsDigit(body[i]) \/ body[i] = DOT
        /\ \/ dots = {} /\ Len(body) >= 1
           \/ /\ Cardinality(dots) = 1
              /\ MinOf(dots) >= 2
              /\ Len(body) - MinOf(dots) \in 1..6

HasDot(t) == \E i \in DOMAIN t : t[i] = DOT

\* C27: ParseItem accepts a numeric text only when the whole text is an
\* optional `-`, one or more digits and optionally `.` with 1 to 6 digits
\* (`-`, `-.5`, `1.` and `1.1234567` are rejected); with a `.` the result is
\* a Decimal, without one an Integer.
C27_NumberForm ==
    (ParsedOK /\ entry = "Item" /\ IsNumericText(input))
        => /\ IsNumberForm(input)
           /\ value.item.bareItem.type =
                  (IF HasDot(input) THEN ItemTypeFloat ELSE ItemTypeInt)

-----------------------------------------------------------------------------
(* The cursor *)

\* a Parser exists: from NewParser to the return of the entry point
ParserExists == pc = "ready" \/ ParserRunning

\* C28: the cursor stays within the input, 0 <= pos <= len(input), it never
\* moves back from one step of a parser to the next, the input is never
\* modified, and the offset of a returned ParseError lies in
\* [0, len(input)].
C28_CursorWithinInput ==
    /\ [](0 <= pos /\ pos <= Len(input))
    /\ [](~err.nil => (0 <= err.pos /\ err.pos <= Len(input)))
    /\ [][ParserExists => (pos' >= pos /\ input' = input)]_vars

\* ParseItem has returned the error of a string that is not closed: cursor
\* and offset are at the end of the input
C28_Witness ==
    /\ Parsed
    /\ entry = "Item"
    /\ ~err.nil
    /\ Len(input) >= 3
    /\ input[1] = DQUOTE
    /\ pos = Len(input)
    /\ err.pos = Len(input)

-----------------------------------------------------------------------------
(* Integers that come from the parser *)

\* -999999999999999 <= n <= 999999999999999
WithinSFRange(n) == ~IntLess(n, MinSFInt) /\ ~IntLess(MaxSFInt, n)

\* the value the caller holds was returned by a parse
HoldsParsedValue == pc \in {"done", "serialized"} /\ entry # "none" /\ err.nil

\* C29: every Integer in a value returned by a successful parse lies in
\* [-999999999999999, 999999999999999], and Serialize of such a value does
\* not fail with the integer range error.
C29_ParsedIntegersInRange ==
    /\ HoldsParsedValue => \A n \in IntsOf(value) : WithinSFRange(n)
    /\ (HoldsParsedValue /\ pc = "serialized")
           => out.err.msg # "Integers may not be larger than 15 digits"

\* the smallest Integer was parsed and serialized again
C29_Witness ==
    /\ HoldsParsedValue
    /\ pc = "serialized"
    /\ round = 1
    /\ input = <<MINUS>> \o NineDigits15
    /\ IntsOf(value) = {MinSFInt}
    /\ out.err.nil
    /\ out.b = input

-----------------------------------------------------------------------------
(* What Serialize returns with an error *)

\* the step in which Serialize is called and returns
SerializeStep == pc # "serialized" /\ pc' = "serialized"

\* C30: Serialize never returns partial output: with an error it returns
\* the empty string, however many members were rendered before the failing
\* one, and the call leaves the value it serializes as it was.
C30_NoPartialOutput ==
    /\ []((pc = "serialized" /\ ~out.err.nil) => out.b = <<>>)
    /\ [][SerializeStep => value' = value]_vars

\* Serialize has failed on the second member of a List, after the first
\* was rendered
C30_Witness ==
    /\ pc = "serialized"
    /\ value.kind = "List"
    /\ Len(value.list) = 2
    /\ appendMember(<<>>, value.list[1]).err.nil
    /\ appendMember(<<>>, value.list[1]).b # <<>>
    /\ ~appendMember(<<>>, value.list[2]).err.nil
    /\ ~out.err.nil
    /\ out.b = <<>>

====
